---- MODULE Spec2Model ----
(***************************************************************************)
(* Dice-notation interpreter of modules/dice/dice.py.                      *)
(*                                                                         *)
(* One dice item per behaviour: a variant and a notation are chosen, the   *)
(* item is constructed (get_args plus the range checks of __init__) and,   *)
(* when construction succeeds, rolled.  Every call of the random source is *)
(* one step of the roll; the step that receives the last value of the roll *)
(* also assembles result and detail, as the code does after its loops.     *)
(*                                                                         *)
(* Text is a sequence of tokens.  A token is a string; notation characters *)
(* and digits are one-character tokens, message identifiers are one token. *)
(* The length of a text is the sum of the lengths of its tokens.           *)
(***************************************************************************)
EXTENDS Integers, Sequences, FiniteSets, TLC

(***************************************************************************)
(* Configuration (dice.py:11-14).  The three caps are configurable; the    *)
(* model runs with small values of them so that every cap is reached.      *)
(***************************************************************************)
MAX_DICE_COUNT == 5
MAX_OUTPUT_CNT == 4
MAX_OUTPUT_LEN == 60
MAX_OUTPUT_EXP == 9

(***************************************************************************)
(* Bounds of the exploration.                                              *)
(***************************************************************************)
\* notations over a variant's alphabet have at most this many characters
MaxCodeLen == 3
\* the random source returns the MaxDraw lowest and MaxDraw highest values
MaxDraw == 3
\* rounds of an exploding roll that are explored
MaxRounds == 2

(***************************************************************************)
(* Text helpers (Python str operations used by dice.py).                   *)
(***************************************************************************)
DigitChars == <<"0", "1", "2", "3", "4", "5", "6", "7", "8", "9">>

IsDigit(c) == \E i \in 1..10 : DigitChars[i] = c

DigitVal(c) == (CHOOSE i \in 1..10 : DigitChars[i] = c) - 1

LowerChars == <<"a", "b", "c", "d", "e", "f", "g", "h", "i", "j", "k", "l", "m",
                "n", "o", "p", "q", "r", "s", "t", "u", "v", "w", "x", "y", "z">>

UpperChars == <<"A", "B", "C", "D", "E", "F", "G", "H", "I", "J", "K", "L", "M",
                "N", "O", "P", "Q", "R", "S", "T", "U", "V", "W", "X", "Y", "Z">>

\* str.upper()
upper(s) ==
    [i \in 1..Len(s) |->
        IF \E j \in 1..26 : LowerChars[j] = s[i]
        THEN UpperChars[CHOOSE j \in 1..26 : LowerChars[j] = s[i]]
        ELSE s[i]]

\* str.replace(old, new): every non-overlapping occurrence, left to right
RECURSIVE replace(_, _, _)
replace(s, old, new) ==
    IF Len(s) < Len(old) \/ Len(old) = 0 THEN s
    ELSE IF SubSeq(s, 1, Len(old)) = old
         THEN new \o replace(SubSeq(s, Len(old) + 1, Len(s)), old, new)
         ELSE <<s[1]>> \o replace(Tail(s), old, new)

\* position of the first occurrence of character c in s, 0 when absent
find(s, c) ==
    IF \E i \in 1..Len(s) : s[i] = c
    THEN CHOOSE i \in 1..Len(s) : s[i] = c /\ \A j \in 1..(i - 1) : s[j] # c
    ELSE 0

\* str.split(sep) for a one-character separator
RECURSIVE split(_, _)
split(s, sep) ==
    IF find(s, sep) = 0 THEN <<s>>
    ELSE <<SubSeq(s, 1, find(s, sep) - 1)>>
            \o split(SubSeq(s, find(s, sep) + 1, Len(s)), sep)

\* str.partition(sep) for a one-character separator
partition(s, sep) ==
    IF find(s, sep) = 0 THEN <<s, <<>>, <<>>>>
    ELSE <<SubSeq(s, 1, find(s, sep) - 1), <<sep>>,
           SubSeq(s, find(s, sep) + 1, Len(s))>>

\* has_illegal with re.match in place of re.search: only the first character
\* is looked at
has_illegal_match(s, legal) == Len(s) > 0 /\ ~(IsDigit(s[1]) \/ s[1] \in legal)

\* re.search(r"[^...]", s): some character outside the legal set
has_illegal(s, legal) == \E i \in 1..Len(s) : ~(IsDigit(s[i]) \/ s[i] \in legal)

\* core.utils.message.isint on the texts dice.py passes to it (digits and
\* the letters its patterns let through): int() accepts exactly the
\* non-empty digit strings among them
isint(s) == Len(s) > 0 /\ \A i \in 1..Len(s) : IsDigit(s[i])

\* int(s) of a digit string
RECURSIVE int(_)
int(s) ==
    IF Len(s) = 0 THEN 0
    ELSE 10 * int(SubSeq(s, 1, Len(s) - 1)) + DigitVal(s[Len(s)])

\* str(n) of a natural number
RECURSIVE str_nat(_)
str_nat(n) ==
    IF n < 10 THEN <<DigitChars[n + 1]>>
    ELSE str_nat(n \div 10) \o <<DigitChars[(n % 10) + 1]>>

\* str(n) of an integer
str(n) == IF n < 0 THEN <<"-">> \o str_nat(-n) ELSE str_nat(n)

\* len(text): tokens count with their number of characters
RECURSIVE len(_)
len(s) == IF Len(s) = 0 THEN 0 ELSE Len(s[1]) + len(Tail(s))

\* str(I18NContext(key)) and the literal "{I18N:key}" texts of dice.py
I18N(key) == <<"{I18N:", key, "}">>

\* str(I18NContext(key, name=value))
I18NContext(key, name, value) == <<"{I18N:", key, ",", name, "=">> \o value \o <<"}">>

(***************************************************************************)
(* fmt_num (dice.py:17-24).                                                *)
(***************************************************************************)
abs(n) == IF n < 0 THEN -n ELSE n

\* f"{num:.{digits}e}" of an integer with abs(num) >= 10^digits: one digit,
\* the point and `digits` further digits, rounded half to even, the exponent
\* with a sign and at least two digits
sci(num, digits) ==
    LET a == abs(num)
        e0 == Len(str_nat(a)) - 1
        scale == 10^(e0 - digits)
        q0 == a \div scale
        r == a % scale
        q1 == IF 2 * r > scale \/ (2 * r = scale /\ q0 % 2 = 1) THEN q0 + 1 ELSE q0
        m == str_nat(q1)
        e == IF Len(m) > digits + 1 THEN e0 + 1 ELSE e0
    IN  (IF num < 0 THEN <<"-">> ELSE <<>>)
            \o <<m[1], ".">> \o SubSeq(m, 2, digits + 1)
            \o <<"e", "+">> \o (IF e < 10 THEN <<"0">> ELSE <<>>) \o str_nat(e)

\* fmt_num with the threshold itself still printed in plain decimal
fmt_num_above(num, sep) ==
    IF MAX_OUTPUT_EXP > 0 /\ abs(num) > 10^MAX_OUTPUT_EXP
    THEN IF ~sep THEN <<"(">> \o sci(num, MAX_OUTPUT_EXP) \o <<")">>
         ELSE sci(num, MAX_OUTPUT_EXP)
    ELSE str(num)

fmt_num(num, sep) ==
    IF MAX_OUTPUT_EXP > 0 /\ abs(num) >= 10^MAX_OUTPUT_EXP
    THEN IF ~sep THEN <<"(">> \o sci(num, MAX_OUTPUT_EXP) \o <<")">>
         ELSE sci(num, MAX_OUTPUT_EXP)
    ELSE str(num)

(***************************************************************************)
(* Exceptions (dice.py:28-42).  `value` is the optional second argument of *)
(* DiceValueError: its text and its truth value (`if value:`).             *)
(***************************************************************************)
NoValue == [text |-> <<>>, truthy |-> FALSE]

IntValue(n) == [text |-> str(n), truthy |-> n # 0]

StrValue(s) == [text |-> s, truthy |-> Len(s) > 0]

NoExc == [kind |-> "None", message |-> <<>>]

DiceSyntaxError(message) == [kind |-> "DiceSyntaxError", message |-> message]

DiceValueError(message, value) ==
    [kind |-> "DiceValueError",
     message |-> IF value.truthy
                 THEN I18NContext("dice.message.error.value", "value", value.text)
                          \o message
                 ELSE message]

\* exceptions of the interpreter itself, raised by an index or a name that
\* does not exist
IndexError == [kind |-> "IndexError", message |-> <<>>]

UnboundLocalError == [kind |-> "UnboundLocalError", message |-> <<>>]

\* outcome of get_args / __init__: the exception raised, or the values
Raise(exc) == [exc |-> exc, args |-> <<>>]

Return(args) == [exc |-> NoExc, args |-> args]

count_out_of_range ==
    I18NContext("dice.message.error.value.count.out_of_range", "max", str(MAX_DICE_COUNT))

sides_out_of_range == I18N("dice.message.error.value.sides.out_of_range")

sides_d1 == I18N("dice.message.error.value.sides.d1")

add_line_out_of_range(sides) ==
    I18NContext("dice.message.error.value.add_line.out_of_range", "max", str(sides))

\* the "=[" placeholder "]" that replaces an itemized bracket
too_long_buffer(count) ==
    <<"=", "[">>
        \o I18NContext("dice.message.output.too_long", "length", str(count))
        \o <<"]">>

\* cap_len with a trace of exactly MAX_OUTPUT_LEN characters replaced too
cap_len_from(output) ==
    IF len(output) >= MAX_OUTPUT_LEN THEN I18N("dice.message.too_long") ELSE output

\* the last statements of every roll(): the trace-length cap
cap_len(output) ==
    IF len(output) > MAX_OUTPUT_LEN THEN I18N("dice.message.too_long") ELSE output

\* texts[1] sep texts[2] sep ... : sep.join(texts)
RECURSIVE join(_, _)
join(texts, sep) ==
    IF Len(texts) = 0 THEN <<>>
    ELSE IF Len(texts) = 1 THEN texts[1]
    ELSE texts[1] \o sep \o join(Tail(texts), sep)

RECURSIVE sum(_)
sum(xs) == IF Len(xs) = 0 THEN 0 ELSE xs[1] + sum(Tail(xs))

max(xs) == CHOOSE m \in {xs[i] : i \in 1..Len(xs)} : \A i \in 1..Len(xs) : xs[i] <= m

min(xs) == CHOOSE m \in {xs[i] : i \in 1..Len(xs)} : \A i \in 1..Len(xs) : m <= xs[i]

(***************************************************************************)
(* Dice (dice.py:64-188).                                                  *)
(***************************************************************************)
\* Dice_get_args with the alias "D%" replaced before the notation is
\* upper-cased
Dice_get_args_alias_first(code) ==
    LET dice_code == upper(replace(code, <<"D", "%">>, <<"D", "1", "0", "0">>))
        temp == split(dice_code, "D")
        dice_count == IF Len(temp[1]) > 0 THEN temp[1] ELSE <<"1">>
        positive == IF find(temp[2], "K") # 0 THEN 1
                    ELSE IF find(temp[2], "Q") # 0 THEN -1
                    ELSE 0
        midstrs == IF positive = 1 THEN partition(temp[2], "K")
                   ELSE partition(temp[2], "Q")
        dice_sides == IF positive # 0 THEN midstrs[1] ELSE temp[2]
        dice_adv == IF positive = 0 THEN <<"0">>
                    ELSE IF Len(midstrs[3]) = 0 THEN <<"1">>
                    ELSE midstrs[3]
    IN  IF has_illegal(dice_code, {"D", "K", "Q", "%"})
        THEN Raise(DiceSyntaxError(I18N("dice.message.error.invalid")))
        ELSE IF Len(temp) < 2
        THEN Raise(IndexError)
        ELSE IF ~isint(dice_count)
        THEN Raise(DiceValueError(I18N("dice.message.error.value.count.invalid"),
                                  StrValue(dice_count)))
        ELSE IF ~isint(dice_sides)
        THEN Raise(DiceValueError(I18N("dice.message.error.value.sides.invalid"),
                                  StrValue(dice_sides)))
        ELSE IF ~isint(dice_adv)
        THEN Raise(DiceValueError(I18N("dice.message.error.value.advantage.invalid"),
                                  StrValue(dice_adv)))
        ELSE Return(<<int(dice_count), int(dice_sides), int(dice_adv), positive>>)

Dice_get_args(code) ==
    LET dice_code == replace(upper(code), <<"D", "%">>, <<"D", "1", "0", "0">>)
        temp == split(dice_code, "D")
        dice_count == IF Len(temp[1]) > 0 THEN temp[1] ELSE <<"1">>
        positive == IF find(temp[2], "K") # 0 THEN 1
                    ELSE IF find(temp[2], "Q") # 0 THEN -1
                    ELSE 0
        midstrs == IF positive = 1 THEN partition(temp[2], "K")
                   ELSE partition(temp[2], "Q")
        dice_sides == IF positive # 0 THEN midstrs[1] ELSE temp[2]
        dice_adv == IF positive = 0 THEN <<"0">>
                    ELSE IF Len(midstrs[3]) = 0 THEN <<"1">>
                    ELSE midstrs[3]
    IN  IF has_illegal(dice_code, {"D", "K", "Q", "%"})
        THEN Raise(DiceSyntaxError(I18N("dice.message.error.invalid")))
        ELSE IF Len(temp) < 2
        THEN Raise(IndexError)
        ELSE IF ~isint(dice_count)
        THEN Raise(DiceValueError(I18N("dice.message.error.value.count.invalid"),
                                  StrValue(dice_count)))
        ELSE IF ~isint(dice_sides)
        THEN Raise(DiceValueError(I18N("dice.message.error.value.sides.invalid"),
                                  StrValue(dice_sides)))
        ELSE IF ~isint(dice_adv)
        THEN Raise(DiceValueError(I18N("dice.message.error.value.advantage.invalid"),
                                  StrValue(dice_adv)))
        ELSE Return(<<int(dice_count), int(dice_sides), int(dice_adv), positive>>)

\* Dice_check without the check of sides == 1
Dice_check_no_d1(args) ==
    IF args[1] < 1 \/ args[1] > MAX_DICE_COUNT
    THEN Raise(DiceValueError(count_out_of_range, IntValue(args[1])))
    ELSE IF args[2] < 1
    THEN Raise(DiceValueError(sides_out_of_range, IntValue(args[2])))
    ELSE IF args[3] > args[1]
    THEN Raise(DiceValueError(I18N("dice.message.error.value.advantage.out_of_range"),
                              IntValue(args[3])))
    ELSE Return(args)

\* Dice_check with sides == 1 folded into the check of sides < 1
Dice_check_le_1(args) ==
    IF args[1] < 1 \/ args[1] > MAX_DICE_COUNT
    THEN Raise(DiceValueError(count_out_of_range, IntValue(args[1])))
    ELSE IF args[2] <= 1
    THEN Raise(DiceValueError(sides_out_of_range, IntValue(args[2])))
    ELSE IF args[3] > args[1]
    THEN Raise(DiceValueError(I18N("dice.message.error.value.advantage.out_of_range"),
                              IntValue(args[3])))
    ELSE Return(args)

\* the range checks of Dice.__init__ on (count, sides, adv, positive)
Dice_check(args) ==
    IF args[1] < 1 \/ args[1] > MAX_DICE_COUNT
    THEN Raise(DiceValueError(count_out_of_range, IntValue(args[1])))
    ELSE IF args[2] < 1
    THEN Raise(DiceValueError(sides_out_of_range,
                              IntValue(args[2])))
    ELSE IF args[2] = 1
    THEN Raise(DiceValueError(sides_d1, NoValue))
    ELSE IF args[3] > args[1]
    THEN Raise(DiceValueError(I18N("dice.message.error.value.advantage.out_of_range"),
                              IntValue(args[3])))
    ELSE Return(args)

Dice_init(code) ==
    IF Dice_get_args(code).exc.kind # "None" THEN Dice_get_args(code)
    ELSE Dice_check(Dice_get_args(code).args)

\* Dice_indexes taking the first adv positions of the sorted order whatever
\* the letter
Dice_indexes_lowest(dice_results, adv, positive) ==
    LET n == Len(dice_results)
        sorted == {p \in Permutations(1..n) :
                      \A i, j \in 1..n : i < j => dice_results[p[i]] <= dice_results[p[j]]}
    IN  {{p[i] : i \in 1..adv} : p \in sorted}

\* np.array(dice_results).argsort(), then indexes[-adv:] or indexes[:adv]:
\* the sets of kept positions.  The default sort is not stable, so every
\* order of equal values is a possible outcome.
Dice_indexes(dice_results, adv, positive) ==
    LET n == Len(dice_results)
        sorted == {p \in Permutations(1..n) :
                      \A i, j \in 1..n : i < j => dice_results[p[i]] <= dice_results[p[j]]}
    IN  {IF positive = 1 THEN {p[i] : i \in (n - adv + 1)..n}
                         ELSE {p[i] : i \in 1..adv} : p \in sorted}

\* new_results of Dice.roll: the values at the kept positions, in draw order
Dice_new_results(dice_results, indexes) ==
    LET kept == SelectSeq([i \in 1..Len(dice_results) |-> i], LAMBDA i : i \in indexes)
    IN  [k \in 1..Len(kept) |-> dice_results[kept[k]]]

\* the bracket of the keep/drop selection (dice.py:148-163)
Dice_adv_buffer(count, dice_results, indexes) ==
    IF count >= MAX_OUTPUT_CNT THEN too_long_buffer(count)
    ELSE <<"=", "[">>
             \o join([i \in 1..count |->
                         fmt_num(dice_results[i], FALSE)
                             \o (IF i \in indexes THEN <<"*">> ELSE <<>>)],
                     <<",", " ">>)
             \o <<"]">>

\* Dice_result with the addition stopping one value early
Dice_result_short(values) ==
    IF Len(values) > 1 THEN sum(SubSeq(values, 1, Len(values) - 1)) ELSE values[1]

\* the result of the shared addition (dice.py:166-183)
Dice_result(values) == IF Len(values) > 1 THEN sum(values) ELSE values[1]

\* Dice_sum_buffer with the separator of the keep/drop bracket
Dice_sum_buffer_comma(count, values) ==
    IF Len(values) <= 1 THEN <<>>
    ELSE IF count > MAX_OUTPUT_CNT THEN too_long_buffer(count)
    ELSE <<"=", "[">>
             \o join([i \in 1..Len(values) |-> fmt_num(values[i], FALSE)], <<",", " ">>)
             \o <<"]">>

\* the bracket of the shared addition (dice.py:166-181)
Dice_sum_buffer(count, values) ==
    IF Len(values) <= 1 THEN <<>>
    ELSE IF count > MAX_OUTPUT_CNT THEN too_long_buffer(count)
    ELSE <<"=", "[">>
             \o join([i \in 1..Len(values) |-> fmt_num(values[i], FALSE)], <<"+">>)
             \o <<"]">>

\* the statements of Dice.roll after the draws: [result, detail]
Dice_output(code, count, adv, dice_results, indexes) ==
    LET values == IF adv = 0 THEN dice_results
                  ELSE Dice_new_results(dice_results, indexes)
        output == code
                      \o (IF adv = 0 THEN <<>>
                          ELSE Dice_adv_buffer(count, dice_results, indexes))
                      \o Dice_sum_buffer(count, values)
                      \o <<"=">> \o fmt_num(Dice_result(values), TRUE)
    IN  [result |-> Dice_result(values), output |-> output, detail |-> cap_len(output)]

(***************************************************************************)
(* FudgeDice (dice.py:191-248).                                            *)
(***************************************************************************)
FudgeDice_get_args(code) ==
    LET dice_code == replace(upper(code), <<"D">>, <<>>)
        temp == split(dice_code, "F")
        dice_count == IF Len(temp[1]) > 0 THEN temp[1] ELSE <<"4">>
    IN  IF has_illegal(dice_code, {"F"})
        THEN Raise(DiceSyntaxError(I18N("dice.message.error.invalid")))
        ELSE IF ~isint(dice_count)
        THEN Raise(DiceValueError(I18N("dice.message.error.value.count.invalid"),
                                  StrValue(dice_count)))
        ELSE Return(<<int(dice_count), 0>>)

\* FudgeDice_check with the lower bound off by one
FudgeDice_check_zero(args) ==
    IF args[1] < 0 \/ args[1] > MAX_DICE_COUNT
    THEN Raise(DiceValueError(count_out_of_range, IntValue(args[1])))
    ELSE Return(args)

\* the range check of FudgeDice.__init__ on (count, 0)
FudgeDice_check(args) ==
    IF args[1] < 1 \/ args[1] > MAX_DICE_COUNT
    THEN Raise(DiceValueError(count_out_of_range, IntValue(args[1])))
    ELSE Return(args)

FudgeDice_init(code) ==
    IF FudgeDice_get_args(code).exc.kind # "None" THEN FudgeDice_get_args(code)
    ELSE FudgeDice_check(FudgeDice_get_args(code).args)

\* FudgeDice_result with every pick other than "-" adding one
FudgeDice_result_else(selected_results) ==
    sum([i \in 1..Len(selected_results) |->
            IF selected_results[i] = "-" THEN -1 ELSE 1])

\* the result loop of FudgeDice.roll (dice.py:238-242)
FudgeDice_result(selected_results) ==
    sum([i \in 1..Len(selected_results) |->
            IF selected_results[i] = "-" THEN -1
            ELSE IF selected_results[i] = "+" THEN 1
            ELSE 0])

\* the statements of FudgeDice.roll after the picks: [result, detail]
FudgeDice_output(code, count, selected_results) ==
    LET head == IF count > MAX_OUTPUT_CNT THEN too_long_buffer(count)
                ELSE replace(code, <<"D">>, <<>>)
                         \o <<"=", "[">>
                         \o join([i \in 1..count |-> <<selected_results[i]>>], <<",", " ">>)
                         \o <<"]">>
        output == head \o <<"=">> \o fmt_num(FudgeDice_result(selected_results), TRUE)
    IN  [result |-> FudgeDice_result(selected_results), output |-> output,
         detail |-> cap_len(output)]

(***************************************************************************)
(* BonusPunishDice (dice.py:251-339).                                      *)
(***************************************************************************)
BonusPunishDice_get_args(code) ==
    LET dice_code == upper(code)
        hasB == find(dice_code, "B") # 0
        hasP == find(dice_code, "P") # 0
        temp == IF hasB THEN split(dice_code, "B") ELSE split(dice_code, "P")
        dice_count == IF (hasB \/ hasP) /\ Len(temp[2]) > 0 THEN temp[2] ELSE <<"1">>
    IN  IF has_illegal(dice_code, {"B", "P"})
        THEN Raise(DiceSyntaxError(I18N("dice.message.error.invalid")))
        ELSE IF ~isint(dice_count)
        THEN Raise(DiceValueError(I18N("dice.message.error.value.count.invalid"),
                                  StrValue(dice_count)))
        ELSE IF ~hasB /\ ~hasP
        THEN Raise(UnboundLocalError)
        ELSE Return(<<int(dice_count), ~hasB>>)

\* the range check of BonusPunishDice.__init__ on (count, positive)
BonusPunishDice_check(args) ==
    IF args[1] < 1 \/ args[1] > MAX_DICE_COUNT
    THEN Raise(DiceValueError(count_out_of_range, IntValue(args[1])))
    ELSE Return(args)

BonusPunishDice_init(code) ==
    IF BonusPunishDice_get_args(code).exc.kind # "None"
    THEN BonusPunishDice_get_args(code)
    ELSE BonusPunishDice_check(BonusPunishDice_get_args(code).args)

\* BonusPunishDice_new_results with the drawn digit in the units and the
\* digit of the base roll in the tens
BonusPunishDice_new_results_units(d100_result, dice_results) ==
    LET d100_digit == d100_result % 10
        raw == <<d100_result>>
                   \o [i \in 1..Len(dice_results) |->
                          int(str(d100_digit) \o str(dice_results[i]))]
    IN  [i \in 1..Len(raw) |-> IF raw[i] = 0 THEN 100 ELSE raw[i]]

\* BonusPunishDice_new_results without the turn of 0 into 100
BonusPunishDice_new_results_raw(d100_result, dice_results) ==
    <<d100_result>>
        \o [i \in 1..Len(dice_results) |->
               int(str(dice_results[i]) \o str(d100_result % 10))]

\* new_results of BonusPunishDice.roll: the base roll, then one candidate per
\* drawn digit, 0 turned into 100
BonusPunishDice_new_results(d100_result, dice_results) ==
    LET d100_digit == d100_result % 10
        raw == <<d100_result>>
                   \o [i \in 1..Len(dice_results) |->
                          int(str(dice_results[i]) \o str(d100_digit))]
    IN  [i \in 1..Len(raw) |-> IF raw[i] = 0 THEN 100 ELSE raw[i]]

\* BonusPunishDice_output with the base roll left out of the candidates
BonusPunishDice_output_digits_only(code, count, positive, d100_result, dice_results) ==
    LET new_results == BonusPunishDice_new_results(d100_result, dice_results)
        head == <<"D", "1", "0", "0", "=">> \o str(d100_result) \o <<",", " ">> \o code
        buffer == IF count > 1
                  THEN IF count >= MAX_OUTPUT_CNT THEN too_long_buffer(count)
                       ELSE <<"=", "[">>
                                \o join([i \in 1..count |-> fmt_num(dice_results[i], FALSE)],
                                        <<",", " ">>)
                                \o <<"]">>
                  ELSE <<"=">> \o fmt_num(dice_results[1], TRUE)
        result == IF positive THEN max(Tail(new_results)) ELSE min(Tail(new_results))
        output == head \o buffer \o <<"=">> \o fmt_num(result, TRUE)
    IN  [result |-> result, output |-> output, detail |-> cap_len(output)]

\* the statements of BonusPunishDice.roll after the draws: [result, detail]
BonusPunishDice_output(code, count, positive, d100_result, dice_results) ==
    LET new_results == BonusPunishDice_new_results(d100_result, dice_results)
        head == <<"D", "1", "0", "0", "=">> \o str(d100_result) \o <<",", " ">> \o code
        buffer == IF count > 1
                  THEN IF count >= MAX_OUTPUT_CNT THEN too_long_buffer(count)
                       ELSE <<"=", "[">>
                                \o join([i \in 1..count |-> fmt_num(dice_results[i], FALSE)],
                                        <<",", " ">>)
                                \o <<"]">>
                  ELSE <<"=">> \o fmt_num(dice_results[1], TRUE)
        result == IF positive THEN max(new_results) ELSE min(new_results)
        output == head \o buffer \o <<"=">> \o fmt_num(result, TRUE)
    IN  [result |-> result, output |-> output, detail |-> cap_len(output)]

(***************************************************************************)
(* WODDice (dice.py:342-484) and DXDice (dice.py:487-591).                 *)
(***************************************************************************)
\* number of digits of s from position i on (the greedy \d+ of re.match)
RECURSIVE digits_run(_, _)
digits_run(s, i) ==
    IF i <= Len(s) /\ IsDigit(s[i]) THEN 1 + digits_run(s, i + 1) ELSE 0

\* a required group (\d+) at position i: its text and the position after it;
\* an empty text when there is no digit
digits_group(s, i) ==
    [text |-> SubSeq(s, i, i + digits_run(s, i) - 1), next |-> i + digits_run(s, i)]

\* an optional group (?:<letter>(\d+))? at position i: the text of the digits
\* and the position after it; the empty text and i when it does not match
optional_group(s, i, letter) ==
    IF i <= Len(s) /\ s[i] = letter /\ digits_run(s, i + 1) > 0
    THEN digits_group(s, i + 1)
    ELSE [text |-> <<>>, next |-> i]

WODDice_get_args(code) ==
    LET dice_code == upper(code)
        g1 == digits_group(dice_code, 1)
        g2 == digits_group(dice_code, g1.next + 1)
        matched == /\ Len(g1.text) > 0
                   /\ g1.next <= Len(dice_code)
                   /\ dice_code[g1.next] = "A"
                   /\ Len(g2.text) > 0
        g3 == optional_group(dice_code, g2.next, "K")
        g4 == optional_group(dice_code, g3.next, "Q")
        g5 == optional_group(dice_code, g4.next, "M")
        dice_success_line == IF Len(g3.text) > 0 THEN g3.text ELSE <<"8">>
        dice_success_line_max == IF Len(g4.text) > 0 THEN g4.text ELSE <<"0">>
        dice_sides == IF Len(g5.text) > 0 THEN g5.text ELSE <<"1", "0">>
    IN  IF ~matched
        THEN Raise(DiceSyntaxError(I18N("dice.message.error.invalid")))
        ELSE IF ~isint(g1.text)
        THEN Raise(DiceValueError(I18N("dice.message.error.value.count.invalid"),
                                  StrValue(g1.text)))
        ELSE IF ~isint(g2.text)
        THEN Raise(DiceValueError(I18N("dice.message.error.value.add_line.invalid"),
                                  StrValue(g2.text)))
        ELSE IF ~isint(dice_success_line)
        THEN Raise(DiceValueError(I18N("dice.message.error.value.dice_success_line.invalid"),
                                  StrValue(dice_success_line)))
        ELSE IF ~isint(dice_success_line_max)
        THEN Raise(DiceValueError(I18N("dice.message.error.value.dice_success_line.invalid"),
                                  StrValue(dice_success_line_max)))
        ELSE IF ~isint(dice_sides)
        THEN Raise(DiceValueError(I18N("dice.message.error.value.sides.invalid"),
                                  StrValue(dice_sides)))
        ELSE Return(<<int(g1.text), int(g2.text), int(dice_success_line),
                      int(dice_success_line_max), int(dice_sides)>>)

\* WODDice_check without the upper bound of the add line
WODDice_check_no_upper(args) ==
    IF args[1] < 1 \/ args[1] > MAX_DICE_COUNT
    THEN Raise(DiceValueError(count_out_of_range, IntValue(args[1])))
    ELSE IF args[5] < 1
    THEN Raise(DiceValueError(sides_out_of_range, IntValue(args[5])))
    ELSE IF args[5] = 1
    THEN Raise(DiceValueError(sides_d1, NoValue))
    ELSE IF args[2] # 0 /\ args[2] < 2
    THEN Raise(DiceValueError(add_line_out_of_range(args[5]), IntValue(args[2])))
    ELSE Return(args)

\* the range checks of WODDice.__init__ on
\* (count, add_line, success_line, success_line_max, sides)
WODDice_check(args) ==
    IF args[1] < 1 \/ args[1] > MAX_DICE_COUNT
    THEN Raise(DiceValueError(count_out_of_range, IntValue(args[1])))
    ELSE IF args[5] < 1
    THEN Raise(DiceValueError(sides_out_of_range,
                              IntValue(args[5])))
    ELSE IF args[5] = 1
    THEN Raise(DiceValueError(sides_d1, NoValue))
    ELSE IF args[2] # 0 /\ (args[2] < 2 \/ args[2] > args[5])
    THEN Raise(DiceValueError(add_line_out_of_range(args[5]), IntValue(args[2])))
    ELSE Return(args)

WODDice_init(code) ==
    IF WODDice_get_args(code).exc.kind # "None" THEN WODDice_get_args(code)
    ELSE WODDice_check(WODDice_get_args(code).args)

\* WODDice_round with a die on both success lines counted for each of them:
\* the number of dice at or above the add line, the successes counted and
\* the text appended to output_buffer
WODDice_round_twice(dice_results, add_line, success_line, success_line_max) ==
    LET n == Len(dice_results)
        indexes == {i \in 1..n :
                       \/ success_line # 0 /\ success_line <= dice_results[i]
                       \/ success_line_max # 0 /\ success_line_max >= dice_results[i]}
        exceeds == {i \in 1..n : add_line # 0 /\ dice_results[i] >= add_line}
        item(i) == IF i \in exceeds
                   THEN <<"<">> \o fmt_num(dice_results[i], FALSE)
                            \o (IF i \in indexes THEN <<"*">> ELSE <<>>) \o <<">">>
                   ELSE fmt_num(dice_results[i], FALSE)
                            \o (IF i \in indexes THEN <<"*">> ELSE <<>>)
    IN  [exceed_result |-> Cardinality(exceeds),
         successes |-> Cardinality({i \in 1..n : success_line # 0 /\ success_line <= dice_results[i]})
                          + Cardinality({i \in 1..n : success_line_max # 0
                                                       /\ success_line_max >= dice_results[i]}),
         text |-> <<"{">> \o join([i \in 1..n |-> item(i)], <<",", " ">>)
                      \o <<"}", ",", " ">>]

\* one pass of the while loop of WODDice.roll over the values of a round:
\* the number of dice at or above the add line, the successes counted and
\* the text appended to output_buffer
WODDice_round(dice_results, add_line, success_line, success_line_max) ==
    LET n == Len(dice_results)
        indexes == {i \in 1..n :
                       \/ success_line # 0 /\ success_line <= dice_results[i]
                       \/ success_line_max # 0 /\ success_line_max >= dice_results[i]}
        exceeds == {i \in 1..n : add_line # 0 /\ dice_results[i] >= add_line}
        item(i) == IF i \in exceeds
                   THEN <<"<">> \o fmt_num(dice_results[i], FALSE)
                            \o (IF i \in indexes THEN <<"*">> ELSE <<>>) \o <<">">>
                   ELSE fmt_num(dice_results[i], FALSE)
                            \o (IF i \in indexes THEN <<"*">> ELSE <<>>)
    IN  [exceed_result |-> Cardinality(exceeds),
         successes |-> Cardinality(indexes),
         text |-> <<"{">> \o join([i \in 1..n |-> item(i)], <<",", " ">>)
                      \o <<"}", ",", " ">>]

\* the statements after the while loop, shared in shape by WODDice.roll and
\* DXDice.roll: the bracket of rounds without its last ", ", or the placeholder
rounds_buffer(count, output_buffer) ==
    IF count >= MAX_OUTPUT_CNT THEN too_long_buffer(count)
    ELSE SubSeq(output_buffer, 1, Len(output_buffer) - 2) \o <<"]">>

\* the statements of WODDice.roll after the loop: [result, detail]
WODDice_output(code, count, output_buffer, success_count) ==
    LET output == code \o rounds_buffer(count, output_buffer)
                      \o <<"=">> \o fmt_num(success_count, TRUE)
    IN  [result |-> success_count, output |-> output, detail |-> cap_len(output)]

DXDice_get_args(code) ==
    LET dice_code == upper(code)
        g1 == digits_group(dice_code, 1)
        g2 == digits_group(dice_code, g1.next + 1)
        matched == /\ Len(g1.text) > 0
                   /\ g1.next <= Len(dice_code)
                   /\ dice_code[g1.next] = "C"
                   /\ Len(g2.text) > 0
        g3 == optional_group(dice_code, g2.next, "M")
        dice_sides == IF Len(g3.text) > 0 THEN g3.text ELSE <<"1", "0">>
    IN  IF ~matched
        THEN Raise(DiceSyntaxError(I18N("dice.message.error.invalid")))
        ELSE IF ~isint(g1.text)
        THEN Raise(DiceValueError(I18N("dice.message.error.value.count.invalid"),
                                  StrValue(g1.text)))
        ELSE IF ~isint(g2.text)
        THEN Raise(DiceValueError(I18N("dice.message.error.value.add_line.invalid"),
                                  StrValue(g2.text)))
        ELSE IF ~isint(dice_sides)
        THEN Raise(DiceValueError(I18N("dice.message.error.value.sides.invalid"),
                                  StrValue(dice_sides)))
        ELSE Return(<<int(g1.text), int(g2.text), int(dice_sides)>>)

\* DXDice_check without the check of sides == 1
DXDice_check_no_d1(args) ==
    IF args[1] < 1 \/ args[1] > MAX_DICE_COUNT
    THEN Raise(DiceValueError(count_out_of_range, IntValue(args[1])))
    ELSE IF args[3] < 1
    THEN Raise(DiceValueError(sides_out_of_range, IntValue(args[3])))
    ELSE IF args[2] < 2 \/ args[2] > args[3]
    THEN Raise(DiceValueError(add_line_out_of_range(args[3]), IntValue(args[2])))
    ELSE Return(args)

\* the range checks of DXDice.__init__ on (count, add_line, sides)
DXDice_check(args) ==
    IF args[1] < 1 \/ args[1] > MAX_DICE_COUNT
    THEN Raise(DiceValueError(count_out_of_range, IntValue(args[1])))
    ELSE IF args[3] < 1
    THEN Raise(DiceValueError(sides_out_of_range,
                              IntValue(args[3])))
    ELSE IF args[3] = 1
    THEN Raise(DiceValueError(sides_d1, NoValue))
    ELSE IF args[2] < 2 \/ args[2] > args[3]
    THEN Raise(DiceValueError(add_line_out_of_range(args[3]), IntValue(args[2])))
    ELSE Return(args)

DXDice_init(code) ==
    IF DXDice_get_args(code).exc.kind # "None" THEN DXDice_get_args(code)
    ELSE DXDice_check(DXDice_get_args(code).args)

\* DXDice_round with a die exploding above the add line only
DXDice_round_above(dice_results, add_line) ==
    LET n == Len(dice_results)
        exceeds == {i \in 1..n : dice_results[i] > add_line}
        item(i) == IF i \in exceeds
                   THEN <<"<">> \o fmt_num(dice_results[i], FALSE) \o <<">">>
                   ELSE fmt_num(dice_results[i], FALSE)
    IN  [exceed_result |-> Cardinality(exceeds),
         text |-> <<"{">> \o join([i \in 1..n |-> item(i)], <<",", " ">>)
                      \o <<"}", ",", " ">>]

\* one pass of the while loop of DXDice.roll over the values of a round
DXDice_round(dice_results, add_line) ==
    LET n == Len(dice_results)
        exceeds == {i \in 1..n : dice_results[i] >= add_line}
        item(i) == IF i \in exceeds
                   THEN <<"<">> \o fmt_num(dice_results[i], FALSE) \o <<">">>
                   ELSE fmt_num(dice_results[i], FALSE)
    IN  [exceed_result |-> Cardinality(exceeds),
         text |-> <<"{">> \o join([i \in 1..n |-> item(i)], <<",", " ">>)
                      \o <<"}", ",", " ">>]

\* DXDice_output with every round counted as a full one
DXDice_output_full_rounds(code, count, sides, output_buffer, dice_rounds, dice_results) ==
    LET result == dice_rounds * sides + max(dice_results)
        output == code \o rounds_buffer(count, output_buffer)
                      \o <<"=">> \o fmt_num(result, TRUE)
    IN  [result |-> result, output |-> output, detail |-> cap_len(output)]

\* DXDice_output with the lowest value of the last round
DXDice_output_lowest(code, count, sides, output_buffer, dice_rounds, dice_results) ==
    LET result == (dice_rounds - 1) * sides + min(dice_results)
        output == code \o rounds_buffer(count, output_buffer)
                      \o <<"=">> \o fmt_num(result, TRUE)
    IN  [result |-> result, output |-> output, detail |-> cap_len(output)]

\* the statements of DXDice.roll after the loop: [result, detail]
DXDice_output(code, count, sides, output_buffer, dice_rounds, dice_results) ==
    LET result == (dice_rounds - 1) * sides + max(dice_results)
        output == code \o rounds_buffer(count, output_buffer)
                      \o <<"=">> \o fmt_num(result, TRUE)
    IN  [result |-> result, output |-> output, detail |-> cap_len(output)]

(***************************************************************************)
(* The random source (core.utils.random.Random) as the draws explored.     *)
(***************************************************************************)
\* Random.randint(low, high): a value of low..high; the exploration takes
\* the MaxDraw lowest and the MaxDraw highest of them
randint(low, high) == {v \in low..high : v < low + MaxDraw \/ v > high - MaxDraw}

\* Random.choice(["-", "0", "+"])
choice == {"-", "0", "+"}

(***************************************************************************)
(* Notations explored.                                                     *)
(***************************************************************************)
Variants == {"Dice", "FudgeDice", "BonusPunishDice", "WODDice", "DXDice"}

\* every text of at most n characters over an alphabet
Strings(alphabet, n) == UNION {[1..k -> alphabet] : k \in 0..n}

\* every concatenation of one piece of each set, in order
Cat2(A, B) == {a \o b : a \in A, b \in B}

Cat3(A, B, C) == {a \o b \o c : a \in A, b \in B, c \in C}

DiceAlphabet == {"0", "1", "2", "9", "D", "d", "K", "Q", "%", "X"}

FudgeAlphabet == {"0", "F", "f", "D", "X"}

BonusPunishAlphabet == {"0", "1", "B", "b", "P", "X"}

WODAlphabet == {"0", "1", "9", "A", "a", "K", "X"}

DXAlphabet == {"0", "1", "9", "C", "c", "M", "X"}

\* longer Dice notations: count, sides, keep/drop suffix; counts around
\* both caps
DiceLong ==
    Cat3({<<>>, <<"2">>, <<"3">>, <<"9">>},
         {<<"D", "2">>, <<"d", "6">>},
         {<<"K">>, <<"K", "0">>, <<"K", "1">>, <<"K", "2">>, <<"K", "3">>, <<"K", "4">>,
          <<"Q">>, <<"Q", "1">>, <<"Q", "2">>, <<"Q", "3">>, <<"q", "2">>, <<"K", "Q">>})
        \cup Cat2({<<"4">>, <<"5">>, <<"6">>, <<"7">>},
                  {<<"D", "2">>, <<"d", "2", "k">>, <<"D", "2", "K", "2">>,
                   <<"D", "2", "Q", "3">>})
        \cup {<<"3", "D", "6">>, <<"3", "D", "2">>, <<"0", "3", "d", "2">>,
              <<"D", "6">>, <<"1", "D", "6">>, <<"2", "D", "6">>, <<"2", "d", "6">>,
              <<"X", "D", "6">>, <<"6", "D", "X">>}

BonusPunishLong ==
    {<<"B", "3">>, <<"P", "3">>, <<"p", "0", "2">>, <<"B", "0", "0", "1">>, <<"B", "9">>,
     <<"p", "9">>, <<"B", "4">>, <<"b", "7">>, <<"B", "2">>, <<"p", "2">>, <<"2">>,
     <<"1", "p", "2">>}

FudgeLong ==
    {<<"5", "D", "F">>, <<"5", "f">>, <<"9", "F">>, <<"1", "d", "F">>, <<"3", "D", "F">>,
     <<"6", "D", "F">>, <<"7", "F">>, <<"4", "D", "F">>, <<"4", "d", "f">>, <<"d", "F">>,
     <<"4">>, <<"2", "F">>}

\* longer WODDice notations: count, add line, success line, success line
\* max, sides
WODLong ==
    Cat3(Cat2({<<"1">>, <<"2">>}, {<<"A", "0">>, <<"A", "2">>, <<"a", "3">>}),
         Cat2({<<>>, <<"K", "0">>, <<"K", "1">>, <<"K", "2">>, <<"k", "3">>},
              {<<>>, <<"Q", "1">>}),
         {<<"M", "2">>, <<"M", "3">>, <<"M", "1">>, <<"M", "0">>, <<"m", "3">>})
        \cup Cat2({<<"1", "A", "2">>, <<"1", "A", "8">>, <<"1", "A", "1", "0">>,
                   <<"1", "A", "1", "1">>},
                  {<<>>, <<"K", "9">>, <<"X">>, <<"M", "6", "K", "5">>})
        \cup Cat2({<<"4">>, <<"5">>, <<"6">>, <<"7">>},
                  {<<"A", "0", "M", "2">>, <<"a", "2", "K", "2", "m", "2">>})

\* longer DXDice notations: count, add line, sides
DXLong ==
    Cat3({<<"1">>, <<"2">>, <<"9">>},
         {<<"C", "0">>, <<"C", "1">>, <<"C", "2">>, <<"c", "3">>, <<"C", "4">>},
         {<<"M", "2">>, <<"M", "3">>, <<"M", "1">>, <<"M", "0">>, <<"m", "3">>})
        \cup Cat2({<<"1", "C", "2">>, <<"1", "C", "8">>, <<"1", "C", "1", "0">>,
                   <<"1", "C", "1", "1">>},
                  {<<>>, <<"X">>, <<"K", "2">>})
        \cup Cat2({<<"4">>, <<"5">>, <<"6">>, <<"7">>}, {<<"C", "2", "M", "2">>})

Codes(v) ==
    CASE v = "Dice" -> Strings(DiceAlphabet, MaxCodeLen) \cup DiceLong
      [] v = "FudgeDice" -> Strings(FudgeAlphabet, MaxCodeLen) \cup FudgeLong
      [] v = "BonusPunishDice" -> Strings(BonusPunishAlphabet, MaxCodeLen) \cup BonusPunishLong
      [] v = "WODDice" -> Strings(WODAlphabet, MaxCodeLen) \cup WODLong
      [] v = "DXDice" -> Strings(DXAlphabet, MaxCodeLen) \cup DXLong

(***************************************************************************)
(* State.                                                                  *)
(***************************************************************************)
VARIABLES
    variant,            \* the class of the item
    code,               \* self.code, the notation as given
    pc,                 \* "new", "error" (construction raised), "ready",
                        \* "rolling" (inside roll()), "done" (roll() returned)
    exc,                \* the exception construction raised, or NoExc
    count, sides, adv, positive,
    add_line, success_line, success_line_max,
    result, detail,     \* self.result, self.detail
    draws,              \* number of calls of the random source so far
    d100_result,        \* roll(): the base roll of BonusPunishDice
    dice_results,       \* roll(): the values drawn in the current round
    dice_count,         \* roll(): the size of the current round
    dice_rounds,        \* roll(): the number of rounds begun
    success_count,      \* roll(): the successes counted so far
    output_buffer,      \* roll(): the bracket of the rounds finished so far
    indexes,            \* roll(): the positions kept by the keep/drop selection
    output,             \* roll(): the trace assembled, before the length cap
    tape,               \* the values the random source returned to this roll()
    rounds,             \* the values of each finished round of this roll()
    again,              \* the number of times roll() was called again on the item
    argsort,            \* np.argsort as far as it was called: the kept positions
                        \* it gave each array of values
    earlier,            \* the evaluation before this one of the same item: its
                        \* result, its detail and the values it was fed
    num, sep, shown     \* fmt_num: its arguments and the text it returned

params == <<count, sides, adv, positive, add_line, success_line, success_line_max>>

locals == <<d100_result, dice_results, dice_count, dice_rounds, success_count, output_buffer,
            indexes, output, tape, rounds>>

fmt == <<num, sep, shown>>

vars == <<variant, code, pc, exc, params, result, detail, draws, locals, earlier, again,
          argsort, fmt>>

\* no evaluation before this one
NoEarlier == [evaluated |-> FALSE, result |-> 0, detail |-> <<>>, tape |-> <<>>]

\* DiceItemBase.__init__ (dice.py:49-52), before the subclass reads the code
Init ==
    /\ variant \in Variants
    /\ code \in Codes(variant)
    /\ pc = "new"
    /\ exc = NoExc
    /\ count = 0 /\ sides = 0 /\ adv = 0 /\ positive = 0
    /\ add_line = 0 /\ success_line = 0 /\ success_line_max = 0
    /\ result = 0
    /\ detail = <<>>
    /\ draws = 0
    /\ d100_result = 0
    /\ dice_results = <<>>
    /\ dice_count = 0
    /\ dice_rounds = 0
    /\ success_count = 0
    /\ output_buffer = <<>>
    /\ indexes = {}
    /\ output = <<>>
    /\ tape = <<>>
    /\ rounds = <<>>
    /\ earlier = NoEarlier
    /\ again = 0
    /\ argsort = <<>>
    /\ num = 0 /\ sep = FALSE /\ shown = <<>>

\* construction raised: the exception reaches the caller and no item exists
raised(outcome) ==
    /\ outcome.exc.kind # "None"
    /\ pc' = "error"
    /\ exc' = outcome.exc
    /\ UNCHANGED <<variant, code, params, result, detail, draws, locals, earlier, again, argsort, fmt>>

\* roll() goes on with the next draw
goes_on == pc' = "rolling" /\ UNCHANGED <<result, detail, output>>

\* roll() returns: self.detail and self.result are assigned
returns(out) ==
    pc' = "done" /\ result' = out.result /\ detail' = out.detail /\ output' = out.output

\* the values the random source returned to this call of roll() so far
tape_so_far == IF pc = "ready" THEN <<>> ELSE tape

\* the values the random source can return to the next call of it: any of
\* its range, and the next value of the earlier evaluation when the item is
\* evaluated again on the same values
fed(range) ==
    IF earlier.evaluated
    THEN {v \in range : /\ Len(tape_so_far) < Len(earlier.tape)
                        /\ v = earlier.tape[Len(tape_so_far) + 1]}
    ELSE range

(***************************************************************************)
(* Dice.                                                                   *)
(***************************************************************************)
Dice_new ==
    /\ variant = "Dice" /\ pc = "new"
    /\ LET outcome == Dice_init(code)
       IN  \/ raised(outcome)
           \/ /\ outcome.exc.kind = "None"
              /\ pc' = "ready"
              /\ count' = outcome.args[1]
              /\ sides' = outcome.args[2]
              /\ adv' = outcome.args[3]
              /\ positive' = outcome.args[4]
              /\ UNCHANGED <<variant, code, exc, add_line, success_line, success_line_max,
                             result, detail, draws, locals, earlier, again, argsort, fmt>>

\* np.argsort sorting anew at every call, whatever it gave the array before
np_argsort_anew(values, keep, highest) == Dice_indexes(values, keep, highest)

\* np.array(dice_results).argsort() and the slice of it (dice.py:146-147).
\* argsort reads its array and nothing else, so the build at hand gives an
\* array sorted before the positions it gave it then; the order of equal
\* values of an array it did not sort yet is any the sort can give.
np_argsort(values, keep, highest) ==
    IF values \in DOMAIN argsort THEN {argsort[values]}
    ELSE Dice_indexes(values, keep, highest)

\* one Random.randint(1, sides) of Dice.roll; the last one ends the roll
Dice_roll ==
    /\ variant = "Dice" /\ pc \in {"ready", "rolling"}
    /\ \E v \in fed(randint(1, sides)) :
          LET drawn == IF pc = "ready" THEN <<v>> ELSE Append(dice_results, v)
          IN  /\ dice_results' = drawn
              /\ tape' = Append(tape_so_far, v)
              /\ draws' = draws + 1
              /\ IF Len(drawn) < count THEN goes_on /\ UNCHANGED <<indexes, argsort>>
                 ELSE IF adv = 0
                 THEN /\ returns(Dice_output(code, count, adv, drawn, {}))
                      /\ UNCHANGED <<indexes, argsort>>
                 ELSE \E kept \in np_argsort(drawn, adv, positive) :
                         /\ indexes' = kept
                         /\ argsort' = [a \in DOMAIN argsort \cup {drawn} |->
                                            IF a = drawn THEN kept ELSE argsort[a]]
                         /\ returns(Dice_output(code, count, adv, drawn, kept))
    /\ UNCHANGED <<variant, code, exc, params, d100_result, dice_count, dice_rounds,
                   success_count, output_buffer, rounds, earlier, again, fmt>>

(***************************************************************************)
(* FudgeDice.                                                              *)
(***************************************************************************)
FudgeDice_new ==
    /\ variant = "FudgeDice" /\ pc = "new"
    /\ LET outcome == FudgeDice_init(code)
       IN  \/ raised(outcome)
           \/ /\ outcome.exc.kind = "None"
              /\ pc' = "ready"
              /\ count' = outcome.args[1]
              /\ UNCHANGED <<variant, code, exc, sides, adv, positive, add_line,
                             success_line, success_line_max, result, detail, draws, locals,
                             earlier, again, argsort, fmt>>

\* one Random.choice of FudgeDice.roll; the last one ends the roll
FudgeDice_roll ==
    /\ variant = "FudgeDice" /\ pc \in {"ready", "rolling"}
    /\ \E v \in fed(choice) :
          LET selected_results == IF pc = "ready" THEN <<v>> ELSE Append(dice_results, v)
          IN  /\ dice_results' = selected_results
              /\ tape' = Append(tape_so_far, v)
              /\ draws' = draws + 1
              /\ IF Len(selected_results) < count THEN goes_on
                 ELSE returns(FudgeDice_output(code, count, selected_results))
    /\ UNCHANGED <<variant, code, exc, params, d100_result, dice_count, dice_rounds,
                   success_count, output_buffer, indexes, rounds, earlier, again, argsort, fmt>>

(***************************************************************************)
(* BonusPunishDice.                                                        *)
(***************************************************************************)
BonusPunishDice_new ==
    /\ variant = "BonusPunishDice" /\ pc = "new"
    /\ LET outcome == BonusPunishDice_init(code)
       IN  \/ raised(outcome)
           \/ /\ outcome.exc.kind = "None"
              /\ pc' = "ready"
              /\ count' = outcome.args[1]
              /\ positive' = outcome.args[2]
              /\ UNCHANGED <<variant, code, exc, sides, adv, add_line, success_line,
                             success_line_max, result, detail, draws, locals, earlier, again, argsort, fmt>>

\* one Random.randint of BonusPunishDice.roll: first the base roll, then the
\* digits; the last digit ends the roll
BonusPunishDice_roll ==
    /\ variant = "BonusPunishDice"
    /\ \/ /\ pc = "ready"
          /\ \E v \in fed(randint(1, 100)) :
                /\ d100_result' = v
                /\ dice_results' = <<>>
                /\ tape' = <<v>>
          /\ draws' = draws + 1
          /\ goes_on
       \/ /\ pc = "rolling"
          /\ \E v \in fed(randint(0, 9)) :
                LET drawn == Append(dice_results, v)
                IN  /\ dice_results' = drawn
                    /\ tape' = Append(tape, v)
                    /\ IF Len(drawn) < count THEN goes_on
                       ELSE returns(BonusPunishDice_output(code, count, positive,
                                                           d100_result, drawn))
          /\ draws' = draws + 1
          /\ UNCHANGED d100_result
    /\ UNCHANGED <<variant, code, exc, params, dice_count, dice_rounds,
                   success_count, output_buffer, indexes, rounds, earlier, again, argsort, fmt>>

(***************************************************************************)
(* WODDice.                                                                *)
(***************************************************************************)
WODDice_new ==
    /\ variant = "WODDice" /\ pc = "new"
    /\ LET outcome == WODDice_init(code)
       IN  \/ raised(outcome)
           \/ /\ outcome.exc.kind = "None"
              /\ pc' = "ready"
              /\ count' = outcome.args[1]
              /\ add_line' = outcome.args[2]
              /\ success_line' = outcome.args[3]
              /\ success_line_max' = outcome.args[4]
              /\ sides' = outcome.args[5]
              /\ UNCHANGED <<variant, code, exc, adv, positive, result, detail, draws,
                             locals, earlier, again, argsort, fmt>>

\* the locals of an exploding roll before the draw: those set at the head of
\* roll() when it was just called, the current ones otherwise
round_size == IF pc = "ready" THEN count ELSE dice_count

round_values == IF pc = "ready" THEN <<>> ELSE dice_results

\* rounds_begun with the rounds of an earlier roll() left in place
rounds_begun_kept == dice_rounds

rounds_begun == IF pc = "ready" THEN 0 ELSE dice_rounds

successes_so_far == IF pc = "ready" THEN 0 ELSE success_count

buffer_so_far == IF pc = "ready" THEN <<"=", "[">> ELSE output_buffer

\* the values of the rounds this call of roll() has finished
rounds_so_far == IF pc = "ready" THEN <<>> ELSE rounds

\* one Random.randint(1, sides) of WODDice.roll; the last one of a round
\* runs the rest of the loop body, and ends the roll when no die exploded
WODDice_roll ==
    /\ variant = "WODDice" /\ pc \in {"ready", "rolling"}
    /\ Len(round_values) = 0 => rounds_begun < MaxRounds
    /\ \E v \in fed(randint(1, sides)) :
          LET drawn == Append(round_values, v)
              round == WODDice_round(drawn, add_line, success_line, success_line_max)
          IN  /\ draws' = draws + 1
              /\ tape' = Append(tape_so_far, v)
              /\ rounds' = IF Len(drawn) < round_size THEN rounds_so_far
                           ELSE Append(rounds_so_far, drawn)
              /\ dice_rounds' = IF Len(round_values) = 0 THEN rounds_begun + 1
                                ELSE rounds_begun
              /\ IF Len(drawn) < round_size
                 THEN /\ dice_results' = drawn
                      /\ dice_count' = round_size
                      /\ success_count' = successes_so_far
                      /\ output_buffer' = buffer_so_far
                      /\ goes_on
                 ELSE /\ success_count' = successes_so_far + round.successes
                      /\ output_buffer' = buffer_so_far \o round.text
                      /\ dice_count' = round.exceed_result
                      /\ IF round.exceed_result # 0
                         THEN dice_results' = <<>> /\ goes_on
                         ELSE /\ dice_results' = drawn
                              /\ returns(WODDice_output(code, count, output_buffer',
                                                        success_count'))
    /\ UNCHANGED <<variant, code, exc, params, d100_result, indexes, earlier, again, argsort, fmt>>

(***************************************************************************)
(* DXDice.                                                                 *)
(***************************************************************************)
DXDice_new ==
    /\ variant = "DXDice" /\ pc = "new"
    /\ LET outcome == DXDice_init(code)
       IN  \/ raised(outcome)
           \/ /\ outcome.exc.kind = "None"
              /\ pc' = "ready"
              /\ count' = outcome.args[1]
              /\ add_line' = outcome.args[2]
              /\ sides' = outcome.args[3]
              /\ UNCHANGED <<variant, code, exc, adv, positive, success_line,
                             success_line_max, result, detail, draws, locals, earlier, again, argsort, fmt>>

\* one Random.randint(1, sides) of DXDice.roll; the last one of a round runs
\* the rest of the loop body, and ends the roll when no die exploded
DXDice_roll ==
    /\ variant = "DXDice" /\ pc \in {"ready", "rolling"}
    /\ Len(round_values) = 0 => rounds_begun < MaxRounds
    /\ \E v \in fed(randint(1, sides)) :
          LET drawn == Append(round_values, v)
              round == DXDice_round(drawn, add_line)
          IN  /\ draws' = draws + 1
              /\ tape' = Append(tape_so_far, v)
              /\ rounds' = IF Len(drawn) < round_size THEN rounds_so_far
                           ELSE Append(rounds_so_far, drawn)
              /\ dice_rounds' = IF Len(round_values) = 0 THEN rounds_begun + 1
                                ELSE rounds_begun
              /\ IF Len(drawn) < round_size
                 THEN /\ dice_results' = drawn
                      /\ dice_count' = round_size
                      /\ output_buffer' = buffer_so_far
                      /\ goes_on
                 ELSE /\ output_buffer' = buffer_so_far \o round.text
                      /\ dice_count' = round.exceed_result
                      /\ IF round.exceed_result # 0
                         THEN dice_results' = <<>> /\ goes_on
                         ELSE /\ dice_results' = drawn
                              /\ returns(DXDice_output(code, count, sides, output_buffer',
                                                       dice_rounds', drawn))
    /\ UNCHANGED <<variant, code, exc, params, d100_result, success_count, indexes,
                   earlier, again, argsort, fmt>>

Next ==
    \/ Dice_new
    \/ Dice_roll
    \/ FudgeDice_new
    \/ FudgeDice_roll
    \/ BonusPunishDice_new
    \/ BonusPunishDice_roll
    \/ WODDice_new
    \/ WODDice_roll
    \/ DXDice_new
    \/ DXDice_roll

Spec == Init /\ [][Next]_vars

(***************************************************************************)
(* An item evaluated twice.  roll() reads the parameters of the item and   *)
(* the random source only; the caller may call it again on the same item.  *)
(* The second call is fed the values the first one was fed.                *)
(***************************************************************************)
roll_again ==
    /\ pc = "done" /\ ~earlier.evaluated
    /\ earlier' = [evaluated |-> TRUE, result |-> result, detail |-> detail, tape |-> tape]
    /\ pc' = "ready"
    /\ UNCHANGED <<variant, code, exc, params, result, detail, draws, locals, again, argsort, fmt>>

NextTwice ==
    \/ Next
    \/ roll_again

SpecTwice == Init /\ [][NextTwice]_vars

(***************************************************************************)
(* An item rolled again and again.  Every call of roll() takes fresh       *)
(* values from the random source; the attributes of the item and the       *)
(* locals of the call before stay as that call left them until this one    *)
(* assigns them.                                                           *)
(***************************************************************************)
\* roll() is called again on an item at most this many times
MaxAgain == 2

\* the items rolled again and again: of every variant, with one draw and
\* with several, with and without keep/drop, exploding and not, and one
\* notation the constructor refuses
AgainCodes(v) ==
    CASE v = "Dice" ->
            {<<"D", "6">>, <<"2", "D", "2">>, <<"3", "D", "2", "K", "2">>, <<"X">>}
      [] v = "FudgeDice" -> {<<"2", "F">>, <<"3", "D", "F">>, <<"d", "F">>, <<"X">>}
      [] v = "BonusPunishDice" -> {<<"B">>, <<"P", "1">>, <<"p", "2">>, <<"X">>}
      [] v = "WODDice" ->
            {<<"1", "A", "2">>, <<"2", "A", "0", "M", "2">>,
             <<"2", "A", "2", "K", "1", "Q", "1", "M", "2">>,
             <<"1", "a", "3", "k", "3", "m", "3">>, <<"X">>}
      [] v = "DXDice" ->
            {<<"1", "C", "2">>, <<"2", "C", "2", "M", "2">>, <<"2", "c", "3", "m", "3">>,
             <<"X">>}

InitAgain == Init /\ code \in AgainCodes(variant)

\* the caller calls roll() on an item whose roll() returned
roll_anew ==
    /\ pc = "done" /\ ~earlier.evaluated
    /\ again < MaxAgain
    /\ again' = again + 1
    /\ pc' = "ready"
    /\ UNCHANGED <<variant, code, exc, params, result, detail, draws, locals, earlier,
                   argsort, fmt>>

NextAgain ==
    \/ Next
    \/ roll_anew

SpecAgain == InitAgain /\ [][NextAgain]_vars

(***************************************************************************)
(* fmt_num on its own: numbers around every power of ten up to the         *)
(* threshold, and up to the largest 32-bit integer, of both signs, in both *)
(* positions of a trace.                                                   *)
(***************************************************************************)
\* numbers at most this far from a power of ten
FmtSpan == 3

Nums ==
    LET near == {10^k + d : k \in 0..MAX_OUTPUT_EXP, d \in (-FmtSpan)..FmtSpan}
                    \cup {2 * 10^MAX_OUTPUT_EXP - d : d \in 0..FmtSpan}
                    \cup {2147483647}
    IN  near \cup {-n : n \in near}

InitFmt ==
    /\ variant = "None" /\ code = <<>>
    /\ pc = "new"
    /\ exc = NoExc
    /\ count = 0 /\ sides = 0 /\ adv = 0 /\ positive = 0
    /\ add_line = 0 /\ success_line = 0 /\ success_line_max = 0
    /\ result = 0
    /\ detail = <<>>
    /\ draws = 0
    /\ d100_result = 0
    /\ dice_results = <<>>
    /\ dice_count = 0
    /\ dice_rounds = 0
    /\ success_count = 0
    /\ output_buffer = <<>>
    /\ indexes = {}
    /\ output = <<>>
    /\ tape = <<>>
    /\ rounds = <<>>
    /\ earlier = NoEarlier
    /\ again = 0
    /\ argsort = <<>>
    /\ num \in Nums /\ sep \in BOOLEAN /\ shown = <<>>

\* a call of fmt_num(num, sep) returns
fmt_num_returns ==
    /\ variant = "None" /\ pc = "new"
    /\ shown' = fmt_num(num, sep)
    /\ pc' = "done"
    /\ UNCHANGED <<variant, code, exc, params, result, detail, draws, locals, earlier,
                   again, argsort, num, sep>>

NextFmt == fmt_num_returns

SpecFmt == InitFmt /\ [][NextFmt]_vars

(***************************************************************************)
(* Properties.                                                             *)
(***************************************************************************)
\* construction succeeded: an item exists
Constructed == pc \in {"ready", "rolling", "done"}

\* what get_args of the item's class returns for its notation
parsed ==
    CASE variant = "Dice" -> Dice_get_args(code)
      [] variant = "FudgeDice" -> FudgeDice_get_args(code)
      [] variant = "BonusPunishDice" -> BonusPunishDice_get_args(code)
      [] variant = "WODDice" -> WODDice_get_args(code)
      [] variant = "DXDice" -> DXDice_get_args(code)

Parsed == parsed.exc.kind = "None"

parsed_count == parsed.args[1]

parsed_sides ==
    CASE variant = "Dice" -> parsed.args[2]
      [] variant = "WODDice" -> parsed.args[5]
      [] variant = "DXDice" -> parsed.args[3]

parsed_add_line == parsed.args[2]

WithSides == {"Dice", "WODDice", "DXDice"}

WithAddLine == {"WODDice", "DXDice"}

\* the text holds the token
Has(text, token) == \E i \in 1..Len(text) : text[i] = token

\* C1: the random source is called only inside roll(): as long as the item
\* is not rolling no draw was consumed, in particular none when construction
\* raised; and whenever a draw was consumed every bound check of the
\* variant's constructor holds of the item.
C1_FailFast ==
    /\ pc \in {"new", "error", "ready"} => draws = 0
    /\ draws > 0 =>
          /\ pc \in {"rolling", "done"}
          /\ count >= 1 /\ count <= MAX_DICE_COUNT
          /\ variant \in WithSides => sides >= 2
          /\ variant = "Dice" => adv <= count
          /\ variant = "DXDice" => add_line >= 2 /\ add_line <= sides
          /\ variant = "WODDice" => add_line = 0 \/ (add_line >= 2 /\ add_line <= sides)

\* an exploding pool whose add line exceeds its sides was rejected by the
\* last bound check, with no draw consumed
C1_Witness ==
    /\ variant = "WODDice" /\ code = <<"1", "A", "1", "1">>
    /\ pc = "error" /\ exc.kind = "DiceValueError"
    /\ draws = 0

\* C2: every constructed item has 1 <= count <= MAX_DICE_COUNT, and a
\* notation whose parsed count is 0 or above MAX_DICE_COUNT makes construction
\* raise DiceValueError.
C2_CountInvariant ==
    /\ Constructed => count >= 1 /\ count <= MAX_DICE_COUNT
    /\ (pc # "new" /\ Parsed /\ (parsed_count = 0 \/ parsed_count > MAX_DICE_COUNT)) =>
          pc = "error" /\ exc.kind = "DiceValueError"

\* a notation of count 0 was rejected
C2_Witness ==
    /\ pc = "error" /\ exc.kind = "DiceValueError"
    /\ Parsed /\ parsed_count = 0

\* C3: every constructed Dice, WODDice or DXDice has sides >= 2; parsed sides
\* of 0 and of 1 both raise DiceValueError, and with the count in range the
\* two raise different messages: the out-of-range one for 0, the d1 one for 1.
C3_SidesInvariant ==
    variant \in WithSides =>
        /\ Constructed => sides >= 2
        /\ (pc # "new" /\ Parsed /\ parsed_sides <= 1) =>
              /\ pc = "error" /\ exc.kind = "DiceValueError"
              /\ (parsed_count >= 1 /\ parsed_count <= MAX_DICE_COUNT) =>
                    /\ parsed_sides = 0 =>
                          /\ Has(exc.message, "dice.message.error.value.sides.out_of_range")
                          /\ ~Has(exc.message, "dice.message.error.value.sides.d1")
                    /\ parsed_sides = 1 =>
                          /\ Has(exc.message, "dice.message.error.value.sides.d1")
                          /\ ~Has(exc.message, "dice.message.error.value.sides.out_of_range")

\* a Double-Cross notation of one side was rejected with the d1 message
C3_Witness ==
    /\ variant = "DXDice" /\ pc = "error"
    /\ Parsed /\ parsed_sides = 1 /\ parsed_count = 1
    /\ Has(exc.message, "dice.message.error.value.sides.d1")

\* the add lines the constructors accept
AddLineAccepted(v, line, faces) ==
    \/ v = "WODDice" /\ line = 0
    \/ line >= 2 /\ line <= faces

\* C4: every constructed DXDice has 2 <= add_line <= sides, every constructed
\* WODDice has add_line = 0 or 2 <= add_line <= sides, and a notation with any
\* other add line makes construction raise DiceValueError.
C4_AddLineInvariant ==
    variant \in WithAddLine =>
        /\ Constructed => AddLineAccepted(variant, add_line, sides)
        /\ (pc # "new" /\ Parsed
                /\ ~AddLineAccepted(variant, parsed_add_line, parsed_sides)) =>
              pc = "error" /\ exc.kind = "DiceValueError"

\* an exploding pool of valid count and sides whose add line is above its
\* sides was rejected with the add-line message
C4_Witness ==
    /\ variant = "WODDice" /\ pc = "error" /\ exc.kind = "DiceValueError"
    /\ Parsed /\ parsed_count = 1 /\ parsed_sides = 2 /\ parsed_add_line = 3
    /\ Has(exc.message, "dice.message.error.value.add_line.out_of_range")

\* a Dice item whose notation has no keep/drop suffix, after roll()
PlainDiceDone == variant = "Dice" /\ pc = "done" /\ positive = 0

\* C5: after roll() of a Dice item without keep/drop, the result is the sum
\* of the count draws and lies in [count, count * sides].
C5_StandardPoolRange ==
    PlainDiceDone =>
        /\ Len(dice_results) = count
        /\ \A i \in 1..count : dice_results[i] >= 1 /\ dice_results[i] <= sides
        /\ result = sum(dice_results)
        /\ result >= count /\ result <= count * sides

\* three dice of six sides all came up six: the upper end of the range
C5_Witness ==
    /\ PlainDiceDone /\ count = 3 /\ sides = 6
    /\ dice_results = <<6, 6, 6>> /\ result = 18

\* the trace the layout prescribes for a Dice item without keep/drop
PlainTrace ==
    code
        \o (IF count >= 2
            THEN <<"=", "[">>
                     \o join([i \in 1..count |-> str(dice_results[i])], <<"+">>)
                     \o <<"]">>
            ELSE <<>>)
        \o <<"=">> \o str(result)

\* C6: below both caps the detail of a Dice item without keep/drop is the
\* notation, "=[" the draws joined by "+" "]" when two or more are summed,
\* "=" and the result; and when one value remains (count 1, or keep/drop of
\* 1) the result is that value and the detail holds no sum bracket: no "+",
\* one bracket (the keep/drop one) under keep/drop and none without.
C6_TraceLayout ==
    /\ (PlainDiceDone /\ count < MAX_OUTPUT_CNT /\ len(PlainTrace) <= MAX_OUTPUT_LEN) =>
          detail = PlainTrace
    /\ (variant = "Dice" /\ pc = "done" /\ (count = 1 \/ adv = 1)) =>
          /\ \E i \in 1..count : result = dice_results[i]
          /\ adv = 1 => result = IF positive = 1 THEN max(dice_results)
                                 ELSE min(dice_results)
          /\ ~Has(detail, "+")
          /\ detail # I18N("dice.message.too_long") =>
                /\ Cardinality({i \in 1..Len(detail) : detail[i] = "["})
                      = IF adv = 1 THEN 1 ELSE 0
                /\ SubSeq(detail, Len(detail) - Len(str(result)), Len(detail))
                      = <<"=">> \o str(result)

\* "2D6" with the draws 3 and 5 gave "2D6=[3+5]=8"
C6_Witness ==
    /\ variant = "Dice" /\ pc = "done"
    /\ code = <<"2", "D", "6">> /\ dice_results = <<3, 5>>
    /\ result = 8
    /\ detail = <<"2", "D", "6", "=", "[", "3", "+", "5", "]", "=", "8">>

\* C7: a Dice notation with the count in range and sides equal to 1 makes
\* construction raise DiceValueError with the sides.d1 message, and no draw
\* is consumed.
C7_OneSidedDie ==
    (variant = "Dice" /\ pc # "new" /\ Parsed
        /\ parsed_count >= 1 /\ parsed_count <= MAX_DICE_COUNT /\ parsed_sides = 1) =>
        /\ pc = "error"
        /\ exc = [kind |-> "DiceValueError",
                  message |-> <<"{I18N:", "dice.message.error.value.sides.d1", "}">>]
        /\ draws = 0

\* "1D1" was rejected
C7_Witness ==
    /\ variant = "Dice" /\ code = <<"1", "D", "1">>
    /\ pc = "error" /\ exc.kind = "DiceValueError"

\* the characters a variant's notation may hold after upper-casing, besides
\* the digits
LegalLetters(v) ==
    CASE v = "Dice" -> {"D", "K", "Q", "%"}
      [] v = "FudgeDice" -> {"F", "D"}
      [] v = "BonusPunishDice" -> {"B", "P"}

IllegalAt(i) ==
    /\ ~IsDigit(upper(code)[i])
    /\ upper(code)[i] \notin LegalLetters(variant)

\* C8: a Dice, FudgeDice or BonusPunishDice notation that holds, after
\* upper-casing, a character outside the variant's alphabet makes
\* construction raise DiceSyntaxError, whatever its numbers are, and no draw
\* is consumed.
C8_IllegalCharacter ==
    (variant \in {"Dice", "FudgeDice", "BonusPunishDice"} /\ pc # "new"
        /\ \E i \in 1..Len(code) : IllegalAt(i)) =>
        /\ pc = "error"
        /\ exc = [kind |-> "DiceSyntaxError",
                  message |-> <<"{I18N:", "dice.message.error.invalid", "}">>]
        /\ draws = 0

\* "XD6" was rejected
C8_Witness ==
    /\ variant = "Dice" /\ code = <<"X", "D", "6">>
    /\ pc = "error" /\ exc.kind = "DiceSyntaxError"

\* number of picks equal to a symbol
Picks(symbol) == Cardinality({i \in 1..Len(dice_results) : dice_results[i] = symbol})

\* C9: after roll() of a FudgeDice item the result is the number of "+"
\* picks minus the number of "-" picks, so it lies in [-count, count]; the
\* picks "-", "0", "+", "-" for "4DF" give -1 and a detail whose bracket
\* lists the four symbols in that order.
C9_FudgeResult ==
    (variant = "FudgeDice" /\ pc = "done") =>
        /\ Len(dice_results) = count
        /\ result = Picks("+") - Picks("-")
        /\ result >= -count /\ result <= count
        /\ (code = <<"4", "D", "F">> /\ dice_results = <<"-", "0", "+", "-">>) =>
              /\ result = -1
              /\ \E i \in 1..(Len(detail) - 11) :
                    SubSeq(detail, i, i + 11)
                        = <<"[", "-", ",", " ", "0", ",", " ", "+", ",", " ", "-", "]">>

\* "4DF" was rolled with the picks "-", "0", "+", "-"
C9_Witness ==
    /\ variant = "FudgeDice" /\ pc = "done"
    /\ code = <<"4", "D", "F">> /\ dice_results = <<"-", "0", "+", "-">>
    /\ result = -1

\* C10: after roll() of a BonusPunishDice item the result lies in [1, 100].
C10_BonusPunishRange ==
    (variant = "BonusPunishDice" /\ pc = "done") =>
        /\ d100_result >= 1 /\ d100_result <= 100
        /\ \A i \in 1..Len(dice_results) : dice_results[i] >= 0 /\ dice_results[i] <= 9
        /\ result >= 1 /\ result <= 100

\* a base roll of 100 with the digit 0 drawn: the candidate 00 counts as 100
C10_Witness ==
    /\ variant = "BonusPunishDice" /\ pc = "done"
    /\ positive = FALSE /\ d100_result = 100 /\ dice_results = <<0>>
    /\ result = 100

\* a WODDice item after roll()
WODDiceDone == variant = "WODDice" /\ pc = "done"

\* the successes WODDice.roll counts over the rounds drawn when the success
\* line is s: the add line alone decides which dice explode, so the values
\* drawn are those of this roll whatever the success line
SuccessesAt(s) ==
    sum([k \in 1..Len(rounds) |->
            WODDice_round(rounds[k], add_line, s, success_line_max).successes])

\* the success lines compared: every value from K0 to one above the sides
SuccessLines == 0..(sides + 1)

\* C11: after roll() of a WODDice item the result is the number of successes
\* counted over its rounds and is >= 0, and on the same values the result is
\* non-decreasing as the success line decreases, over every success line
\* K accepts, K0 and K1 included: s1 < s2 gives result(s1) >= result(s2).
C11_SuccessMonotone ==
    WODDiceDone =>
        /\ result >= 0
        /\ result = SuccessesAt(success_line)
        /\ \A s1, s2 \in SuccessLines : s1 < s2 => SuccessesAt(s1) >= SuccessesAt(s2)

\* a DXDice item after roll()
DXDiceDone == variant = "DXDice" /\ pc = "done"

\* C12 as stated: after roll() of a DXDice item the result is >= sides.
C12_Original == DXDiceDone => result >= sides

\* C12, amended: after roll() of a DXDice item the result is the sides once
\* for every round but the last plus the highest value of the last round; it
\* is >= 1 always, and it is >= sides exactly when a die exploded (two or
\* more rounds) or the highest value of the only round is the top face.
C12_DXLowerBound ==
    DXDiceDone =>
        /\ Len(rounds) = dice_rounds /\ dice_rounds >= 1
        /\ result = (dice_rounds - 1) * sides + max(rounds[dice_rounds])
        /\ result >= 1
        /\ result >= sides <=> (dice_rounds >= 2 \/ max(rounds[1]) = sides)

\* two rounds were rolled and the last one came up all ones: one above the
\* sides
C12_Witness ==
    /\ DXDiceDone /\ dice_rounds = 2
    /\ max(rounds[2]) = 1
    /\ result = sides + 1

\* fmt_num was called and returned
Formatted == variant = "None" /\ pc = "done"

\* the text without the parentheses around it, when it has them
Unwrapped ==
    IF Len(shown) >= 2 /\ shown[1] = "(" /\ shown[Len(shown)] = ")"
    THEN SubSeq(shown, 2, Len(shown) - 1)
    ELSE shown

\* the text without its sign
Unsigned == IF Unwrapped[1] = "-" THEN Tail(Unwrapped) ELSE Unwrapped

\* exponential notation of MAX_OUTPUT_EXP fractional digits: one digit, the
\* point, the fractional digits, "e+" and two digits of exponent
Scientific ==
    /\ Len(Unsigned) = MAX_OUTPUT_EXP + 6
    /\ IsDigit(Unsigned[1]) /\ Unsigned[1] # "0"
    /\ Unsigned[2] = "."
    /\ \A i \in 3..(MAX_OUTPUT_EXP + 2) : IsDigit(Unsigned[i])
    /\ Unsigned[MAX_OUTPUT_EXP + 3] = "e" /\ Unsigned[MAX_OUTPUT_EXP + 4] = "+"
    /\ IsDigit(Unsigned[MAX_OUTPUT_EXP + 5]) /\ IsDigit(Unsigned[MAX_OUTPUT_EXP + 6])

\* the digits of the mantissa and the exponent of a scientific text
Mantissa == int(<<Unsigned[1]>> \o SubSeq(Unsigned, 3, MAX_OUTPUT_EXP + 2))

Exponent == int(SubSeq(Unsigned, MAX_OUTPUT_EXP + 5, MAX_OUTPUT_EXP + 6))

\* C13: fmt_num(num, sep) is in exponential notation exactly when
\* MAX_OUTPUT_EXP > 0 and |num| >= 10^MAX_OUTPUT_EXP, and is str(num)
\* otherwise: with the threshold 9, 10^9 is exponential and 10^8 and 10^9 - 1
\* are plain, and a negative number is judged by its magnitude and keeps its
\* sign.  The exponential text denotes the number, and it stands in
\* parentheses exactly when sep is false.
C13_FormatThreshold ==
    Formatted =>
        /\ Scientific <=> (MAX_OUTPUT_EXP > 0 /\ abs(num) >= 10^MAX_OUTPUT_EXP)
        /\ ~Scientific => shown = str(num)
        /\ Scientific =>
              /\ Exponent = MAX_OUTPUT_EXP /\ Mantissa = abs(num)
              /\ (Unwrapped[1] = "-") <=> (num < 0)
        /\ (shown[1] = "(" /\ shown[Len(shown)] = ")") <=> (Scientific /\ ~sep)
        /\ (num = 10^9 /\ sep) =>
              shown = <<"1", ".", "0", "0", "0", "0", "0", "0", "0", "0", "0", "e", "+",
                        "0", "9">>
        /\ num = 10^8 => shown = <<"1", "0", "0", "0", "0", "0", "0", "0", "0">>
        /\ num = 10^9 - 1 => shown = <<"9", "9", "9", "9", "9", "9", "9", "9", "9">>

\* -10^9 outside the trailing position came out in parentheses
C13_Witness ==
    /\ Formatted /\ num = -(10^9) /\ ~sep
    /\ shown = <<"(", "-", "1", ".", "0", "0", "0", "0", "0", "0", "0", "0", "0", "e", "+",
                 "0", "9", ")">>

\* the item was evaluated a second time, on the values of its first
\* evaluation, and roll() returned
EvaluatedTwice == earlier.evaluated /\ pc = "done"

PlaceholderAt(i) ==
    SubSeq(output, i, i + 6 + Len(str(count)) + 1)
        = <<"[", "{I18N:", "dice.message.output.too_long", ",", "length", "=">>
              \o str(count) \o <<"}", "]">>

\* the sums of the values at every choice of `keep` positions
SumsOfKept(values, keep) ==
    {sum(Dice_new_results(values, I)) :
        I \in {J \in SUBSET (1..Len(values)) : Cardinality(J) = keep}}

\* the largest and the smallest member of a set of integers
Largest(S) == CHOOSE m \in S : \A n \in S : n <= m

Smallest(S) == CHOOSE m \in S : \A n \in S : m <= n

\* the result the values drawn stand for, whatever is shown of them
ResultOfDraws ==
    CASE variant = "Dice" ->
            IF adv = 0 THEN sum(tape)
            ELSE IF positive = 1 THEN Largest(SumsOfKept(tape, adv))
            ELSE Smallest(SumsOfKept(tape, adv))
      [] variant = "FudgeDice" ->
            Cardinality({i \in 1..Len(tape) : tape[i] = "+"})
                - Cardinality({i \in 1..Len(tape) : tape[i] = "-"})
      [] variant = "BonusPunishDice" ->
            LET tens(i) == 10 * tape[i + 1] + (tape[1] % 10)
                candidates == {tape[1]}
                                  \cup {IF tens(i) = 0 THEN 100 ELSE tens(i) : i \in 1..count}
            IN  IF positive THEN Largest(candidates) ELSE Smallest(candidates)
      [] variant = "WODDice" -> SuccessesAt(success_line)
      [] variant = "DXDice" -> (Len(rounds) - 1) * sides + max(rounds[Len(rounds)])

\* the number of values a roll() of the item takes from the random source
\* when its rounds are the ones drawn
DrawsOfRoll ==
    CASE variant \in {"Dice", "FudgeDice"} -> count
      [] variant = "BonusPunishDice" -> count + 1
      [] variant \in {"WODDice", "DXDice"} -> sum([k \in 1..Len(rounds) |-> Len(rounds[k])])

\* the rounds of an exploding roll: count dice first, then one die for every
\* die of the round before at or above the add line, until none is
RoundsExplode ==
    variant \in {"WODDice", "DXDice"} =>
        /\ Len(rounds) >= 1 /\ Len(rounds[1]) = count
        /\ \A k \in 1..Len(rounds) :
              LET exploded == Cardinality({i \in 1..Len(rounds[k]) :
                                              add_line # 0 /\ rounds[k][i] >= add_line})
              IN  IF k < Len(rounds) THEN Len(rounds[k + 1]) = exploded
                  ELSE exploded = 0

\* C15: after roll() of an item of any variant whose count equals or exceeds
\* MAX_OUTPUT_CNT, every bracket of the assembled trace is the placeholder
\* carrying the count, while all the values of the roll were drawn and the
\* result is the one these values give when nothing is cut.
C15_CountTruncation ==
    (pc = "done" /\ variant \in Variants /\ count >= MAX_OUTPUT_CNT) =>
        /\ \A i \in 1..Len(output) : output[i] = "[" => PlaceholderAt(i)
        /\ Len(tape) = DrawsOfRoll /\ RoundsExplode
        /\ result = ResultOfDraws

\* roll() of an item returned
Rolled == pc = "done" /\ variant \in Variants

\* C16: after roll() of an item of any variant the detail is the generic
\* too-long placeholder exactly when the assembled trace has more than
\* MAX_OUTPUT_LEN characters, and is the assembled trace otherwise; either
\* way the result is the one the values drawn give.
C16_LengthTruncation ==
    Rolled =>
        /\ detail = I18N("dice.message.too_long") <=> len(output) > MAX_OUTPUT_LEN
        /\ len(output) <= MAX_OUTPUT_LEN => detail = output
        /\ result = ResultOfDraws

\* a trace of exactly MAX_OUTPUT_LEN characters was kept
C16_Witness ==
    /\ Rolled
    /\ len(output) = MAX_OUTPUT_LEN
    /\ detail = output

\* the exception kinds of the interpreter's own error classes
TypedErrors == {"DiceSyntaxError", "DiceValueError"}

\* the notation lacks the letter its variant is built around: the D of
\* Dice, the B or P of BonusPunishDice
LacksSeparator ==
    \/ variant = "Dice" /\ ~Has(upper(code), "D")
    \/ variant = "BonusPunishDice" /\ ~Has(upper(code), "B") /\ ~Has(upper(code), "P")

\* C17: construction of an item of any variant from any notation either
\* succeeds or raises DiceSyntaxError or DiceValueError, and a notation
\* without the separator of its variant (a Dice notation without D, a
\* BonusPunishDice notation with neither B nor P) raises DiceSyntaxError.
C17_OnlyTypedErrors ==
    (variant \in Variants /\ pc # "new") =>
        /\ pc = "error" => exc.kind \in TypedErrors
        /\ LacksSeparator => pc = "error" /\ exc.kind = "DiceSyntaxError"

\* the message of the exception raised carries the value n: the value
\* template with n for its value stands in it
CarriesValue(n) ==
    \E i \in 1..(Len(exc.message) - 5 - Len(str(n))) :
        SubSeq(exc.message, i, i + 5 + Len(str(n)))
            = <<"{I18N:", "dice.message.error.value", ",", "value", "=">> \o str(n) \o <<"}">>

\* construction stopped at the check of the count: the notation parses and
\* its count is outside [1, MAX_DICE_COUNT]
CountRejected ==
    /\ variant \in Variants /\ pc = "error" /\ Parsed
    /\ (parsed_count < 1 \/ parsed_count > MAX_DICE_COUNT)

\* construction stopped at the check of the sides: the count is in range and
\* the sides are below 1
SidesRejected ==
    /\ variant \in WithSides /\ pc = "error" /\ Parsed
    /\ parsed_count >= 1 /\ parsed_count <= MAX_DICE_COUNT
    /\ parsed_sides < 1

\* C18: the DiceValueError raised for a count outside [1, MAX_DICE_COUNT],
\* count 0 included, and for sides below 1, sides 0 included, carries the
\* offending value in its message besides the identifier of the message.
C18_ValueCarried ==
    /\ CountRejected =>
          /\ exc.kind = "DiceValueError"
          /\ Has(exc.message, "dice.message.error.value.count.out_of_range")
          /\ CarriesValue(parsed_count)
    /\ SidesRejected =>
          /\ exc.kind = "DiceValueError"
          /\ Has(exc.message, "dice.message.error.value.sides.out_of_range")
          /\ CarriesValue(parsed_sides)

\* the notation as roll() writes it at the head of the trace: the code of
\* the item, for FudgeDice without its optional "D" (dice.py:224)
Notation == IF variant = "FudgeDice" THEN replace(code, <<"D">>, <<>>) ELSE code

\* part stands somewhere in text
Contains(text, part) ==
    \E i \in 0..(Len(text) - Len(part)) : SubSeq(text, i + 1, i + Len(part)) = part

\* text ends with part
EndsWith(text, part) ==
    /\ Len(text) >= Len(part)
    /\ SubSeq(text, Len(text) - Len(part) + 1, Len(text)) = part

\* C19: after roll() of an item of any variant, a detail other than the
\* too-long placeholder holds the notation of the item and ends with "="
\* and the formatted result, also when the placeholder of the item count
\* stands for the itemized bracket.
C19_TraceShape ==
    (Rolled /\ detail # I18N("dice.message.too_long")) =>
        /\ Contains(detail, Notation)
        /\ EndsWith(detail, <<"=">> \o fmt_num(result, TRUE))

\* str.lower()
lower(s) ==
    [i \in 1..Len(s) |->
        IF \E j \in 1..26 : UpperChars[j] = s[i]
        THEN LowerChars[CHOOSE j \in 1..26 : UpperChars[j] = s[i]]
        ELSE s[i]]

\* what the constructor of a variant does with a notation
Construction(v, notation) ==
    CASE v = "Dice" -> Dice_init(notation)
      [] v = "FudgeDice" -> FudgeDice_init(notation)
      [] v = "BonusPunishDice" -> BonusPunishDice_init(notation)
      [] v = "WODDice" -> WODDice_init(notation)
      [] v = "DXDice" -> DXDice_init(notation)

\* the parameters of the item, in the order get_args of its class returns
\* them
ParamsOfItem ==
    CASE variant = "Dice" -> <<count, sides, adv, positive>>
      [] variant = "FudgeDice" -> <<count, 0>>
      [] variant = "BonusPunishDice" -> <<count, positive>>
      [] variant = "WODDice" -> <<count, add_line, success_line, success_line_max, sides>>
      [] variant = "DXDice" -> <<count, add_line, sides>>

\* construction of the item ended as the construction from this notation
\* ends: the same exception, or the same parameters
SameConstruction(notation) ==
    LET other == Construction(variant, notation)
    IN  /\ pc = "error" => other.exc = exc
        /\ pc = "ready" => other.exc.kind = "None" /\ other.args = ParamsOfItem

\* the sides of a Dice notation are written "%": the text between the first
\* "D" or "d" and the end, the "K" or "Q" of the kept dice, or a further "D",
\* is "%"
SidesArePercent(notation) ==
    LET u == upper(notation)
    IN  \E i \in 1..(Len(u) - 1) :
            /\ u[i] = "D"
            /\ \A j \in 1..(i - 1) : u[j] # "D"
            /\ u[i + 1] = "%"
            /\ Len(u) > i + 1 => u[i + 2] \in {"K", "Q", "D"}

\* C20: the construction of an item of any variant ends as the construction
\* from the same notation in upper case and in lower case ends, with the same
\* parameters or the same exception, so two notations that differ in letter
\* case only are constructed alike; and a Dice item whose notation has "%"
\* for its sides, after "D" or "d", has sides = 100.
C20_CaseInsensitive ==
    (variant \in Variants /\ pc \in {"error", "ready"}) =>
        /\ SameConstruction(upper(code))
        /\ SameConstruction(lower(code))
        /\ (variant = "Dice" /\ pc = "ready" /\ SidesArePercent(code)) =>
              sides = 100

\* "d%" was constructed with 100 sides
C20_Witness ==
    /\ variant = "Dice" /\ code = <<"d", "%">>
    /\ pc = "ready" /\ count = 1 /\ sides = 100

\* a Dice item with a keep/drop selection of one die or more, after roll()
KeepDropDone == variant = "Dice" /\ pc = "done" /\ adv >= 1

\* the number of kept-markers in a text
Marks(text) == Cardinality({i \in 1..Len(text) : text[i] = "*"})

\* C21: a constructed Dice item has 0 <= adv <= count, and a notation whose
\* adv exceeds its count, the count and the sides being in range, is refused
\* with DiceValueError; after roll() of a Dice item with adv >= 1 exactly adv
\* of the count positions are kept, the result is the sum of the values at
\* the kept positions, which is the sum of the adv largest draws under K and
\* of the adv smallest under Q, whatever the order of equal draws, and lies
\* in [adv, adv * sides]; the trace, when its bracket of draws is shown, has
\* exactly adv kept-markers.
C21_KeepDrop ==
    /\ (variant = "Dice" /\ Constructed) => (adv >= 0 /\ adv <= count)
    /\ (variant = "Dice" /\ pc # "new" /\ Parsed /\ parsed.args[3] > parsed.args[1]) =>
          pc = "error" /\ exc.kind = "DiceValueError"
    /\ KeepDropDone =>
          /\ Len(tape) = count
          /\ indexes \subseteq 1..count /\ Cardinality(indexes) = adv
          /\ result = sum(Dice_new_results(tape, indexes))
          /\ positive = 1 => result = Largest(SumsOfKept(tape, adv))
          /\ positive = -1 => result = Smallest(SumsOfKept(tape, adv))
          /\ positive \in {1, -1}
          /\ result >= adv /\ result <= adv * sides
          /\ (count < MAX_OUTPUT_CNT /\ detail = output) => Marks(detail) = adv

\* the two lowest of three dice were kept, two of the three being equal
C21_Witness ==
    /\ KeepDropDone /\ count = 3 /\ adv = 2 /\ positive = -1
    /\ tape = <<2, 1, 2>> /\ result = 3
    /\ Marks(detail) = 2

\* a FudgeDice notation of legal characters only that has no "F"
FudgeLacksF ==
    /\ variant = "FudgeDice"
    /\ ~has_illegal(replace(upper(code), <<"D">>, <<>>), {"F"})
    /\ ~Has(upper(code), "F")

\* C22: a FudgeDice item is constructed only from a notation that has the
\* letter "F", and a notation of legal characters only that has no "F", such
\* as "4" or "4D", is refused with DiceSyntaxError.
C22_FudgeNeedsF ==
    /\ (variant = "FudgeDice" /\ Constructed) => Has(upper(code), "F")
    /\ (FudgeLacksF /\ pc # "new") => (pc = "error" /\ exc.kind = "DiceSyntaxError")

\* the whole notation is of the pattern of its variant: the count, the
\* letter, the add line, then the optional groups in their order and nothing
\* after them
WholePattern ==
    LET s == upper(code)
        g1 == digits_group(s, 1)
        g2 == digits_group(s, g1.next + 1)
        head == /\ Len(g1.text) > 0
                /\ g1.next <= Len(s)
                /\ s[g1.next] = (IF variant = "WODDice" THEN "A" ELSE "C")
                /\ Len(g2.text) > 0
        k == optional_group(s, g2.next, "K")
        q == optional_group(s, k.next, "Q")
        m == optional_group(s, IF variant = "WODDice" THEN q.next ELSE g2.next, "M")
    IN  head /\ m.next = Len(s) + 1

\* C23: a WODDice or DXDice item is constructed only from a notation that is
\* of the variant's pattern as a whole, and a notation that is not, such as
\* one whose beginning is of the pattern and is followed by other characters
\* or by groups in another order, is refused with DiceSyntaxError.
C23_WholeMatch ==
    (variant \in WithAddLine /\ pc # "new" /\ ~WholePattern) =>
        (pc = "error" /\ exc.kind = "DiceSyntaxError")

\* a BonusPunishDice item after roll()
BonusPunishDone == variant = "BonusPunishDice" /\ pc = "done"

\* the candidates of a BonusPunishDice roll by the values drawn: the base
\* roll, then for every digit drawn ten times the digit plus the units of the
\* base roll, 100 standing for 0
Candidates ==
    [i \in 1..Len(tape) |->
        IF i = 1 THEN tape[1]
        ELSE IF 10 * tape[i] + (tape[1] % 10) = 0 THEN 100
        ELSE 10 * tape[i] + (tape[1] % 10)]

\* the notation has the letter, in either case
Lettered(letter) == Has(upper(code), letter)

\* C24: after roll() of a BonusPunishDice item the candidates are the base
\* D100 roll and one candidate for each of the count digits drawn; the result
\* is the largest of them for a notation with "P" and the smallest for a
\* notation with "B", so it is >= the base roll under "P" and <= the base
\* roll under "B".
C24_BonusPunishSelection ==
    BonusPunishDone =>
        /\ Len(tape) = count + 1 /\ tape[1] = d100_result
        /\ \E i \in 1..Len(tape) : result = Candidates[i]
        /\ (Lettered("P") /\ ~Lettered("B")) =>
              /\ \A i \in 1..Len(tape) : result >= Candidates[i]
              /\ result >= d100_result
        /\ (Lettered("B") /\ ~Lettered("P")) =>
              /\ \A i \in 1..Len(tape) : result <= Candidates[i]
              /\ result <= d100_result

\* a "P" roll whose digits all gave less than the base roll: the base roll
\* is the result
C24_Witness ==
    /\ BonusPunishDone /\ Lettered("P") /\ count = 2
    /\ d100_result = 98 /\ tape = <<98, 0, 1>>
    /\ result = 98

\* the units digit of a number
Units(n) == n % 10

\* C25: after roll() of a BonusPunishDice item every candidate of a drawn
\* digit d is 10 * d + (base roll mod 10), with 100 in place of 0; every
\* candidate and the result have the units digit of the base roll, for every
\* base roll of 1..100, 100 included; every candidate lies in 1..100.
C25_DigitSubstitution ==
    BonusPunishDone =>
        /\ d100_result \in 1..100
        /\ \A i \in 1..count : dice_results[i] \in 0..9
        /\ BonusPunishDice_new_results(d100_result, dice_results) = Candidates
        /\ \A i \in 1..Len(Candidates) :
              /\ Units(Candidates[i]) = Units(d100_result)
              /\ Candidates[i] \in 1..100
        /\ Units(result) = Units(d100_result)

\* the base roll was 100 and the digit 0: the candidate 00 counts as 100;
\* with the digit 9 the candidate is 90
C25_Witness ==
    /\ BonusPunishDone /\ count = 2
    /\ d100_result = 100 /\ dice_results = <<0, 9>>
    /\ Candidates = <<100, 100, 90>>

\* an item of an exploding variant inside or after roll()
Exploding == variant \in WithAddLine /\ pc \in {"rolling", "done"}

\* the number of dice of a round at or above the add line
Exploded(values) ==
    Cardinality({i \in 1..Len(values) : add_line # 0 /\ values[i] >= add_line})

\* C26: in roll() of a WODDice or DXDice item the first round draws count
\* dice and every later round draws as many dice as the round before it had
\* dice at or above the add line, so no round is larger than the one before;
\* the loop goes on after a round exactly when a die of it exploded, so
\* roll() returns after the first round without an exploding die; and a
\* WODDice with add_line 0 has one round.
C26_ExplosionRounds ==
    Exploding =>
        /\ \A k \in 1..Len(rounds) :
              /\ Len(rounds[k]) = (IF k = 1 THEN count ELSE Exploded(rounds[k - 1]))
              /\ k > 1 => Len(rounds[k]) <= Len(rounds[k - 1])
              /\ k < Len(rounds) => Exploded(rounds[k]) > 0
        /\ pc = "done" => (Len(rounds) >= 1 /\ Exploded(rounds[Len(rounds)]) = 0)
        /\ (pc = "rolling" /\ Len(rounds) >= 1) => Exploded(rounds[Len(rounds)]) > 0
        /\ pc = "rolling" =>
              dice_count = (IF Len(rounds) = 0 THEN count
                            ELSE Exploded(rounds[Len(rounds)]))
        /\ Len(tape) = sum([k \in 1..Len(rounds) |-> Len(rounds[k])])
                          + (IF pc = "rolling" THEN Len(dice_results) ELSE 0)
        /\ (variant = "WODDice" /\ add_line = 0 /\ pc = "done") => Len(rounds) = 1

\* two dice, one of them at the add line: a second round of one die, which
\* did not explode
C26_Witness ==
    /\ Exploding /\ pc = "done" /\ variant = "DXDice"
    /\ count = 2 /\ add_line = 2
    /\ rounds = <<<<2, 1>>, <<1>>>>

\* the value counts as a success of the WODDice item
Success(v) ==
    \/ success_line # 0 /\ v >= success_line
    \/ success_line_max # 0 /\ v <= success_line_max

\* the dice of all rounds, by round and position
AllDice == {<<k, i>> : k \in 1..Len(rounds), i \in 1..MAX_DICE_COUNT} \cap
               {d \in (1..Len(rounds)) \X (1..MAX_DICE_COUNT) : d[2] <= Len(rounds[d[1]])}

\* C27: after roll() of a WODDice item the result is the number of dice,
\* over all rounds, whose value is >= success_line when that is not 0 or
\* <= success_line_max when that is not 0, a die on both lines counting
\* once; the result is at most the number of dice drawn.
C27_SuccessCount ==
    WODDiceDone =>
        /\ result = Cardinality({d \in AllDice : Success(rounds[d[1]][d[2]])})
        /\ Cardinality(AllDice) = Len(tape)
        /\ result >= 0 /\ result <= Len(tape)

\* the die of the second round, drawn for the exploded die, counted like the
\* others; the dice that came up 1 are on both lines and counted once each
C27_Witness ==
    /\ WODDiceDone /\ count = 2 /\ add_line = 2 /\ sides = 2
    /\ success_line = 1 /\ success_line_max = 1
    /\ rounds = <<<<2, 1>>, <<1>>>>
    /\ result = 3

\* C28: after roll() of a DXDice item with R rounds the result is
\* (R - 1) * sides plus the highest value of the last round, R >= 1, the
\* last round being the first one in which no die reached the add line.
C28_DXFormula ==
    DXDiceDone =>
        LET R == Len(rounds)
        IN  /\ R >= 1 /\ R = dice_rounds
            /\ \A i \in 1..Len(rounds[R]) : rounds[R][i] < add_line
            /\ \A k \in 1..(R - 1) : \E i \in 1..Len(rounds[k]) : rounds[k][i] >= add_line
            /\ \E i \in 1..Len(rounds[R]) :
                  /\ \A j \in 1..Len(rounds[R]) : rounds[R][j] <= rounds[R][i]
                  /\ result = (R - 1) * sides + rounds[R][i]

\* two rounds of a three-sided pool, the last with the values 1 and 2
C28_Witness ==
    /\ DXDiceDone /\ sides = 3 /\ count = 2 /\ add_line = 3
    /\ rounds = <<<<3, 3>>, <<1, 2>>>>
    /\ result = 5

\* C29: roll() of every constructed WODDice and DXDice item ends whatever
\* values in 1..sides the random source returns.  The condition of the loop
\* reads the number of dice of the next round only, and the values of a
\* round do not depend on the rounds before it, so the loop ends on every
\* sequence of values exactly when the rounds shrink: every round after the
\* first has fewer dice than the round before it, and a roll() that goes on
\* after a round has fewer dice to draw than that round had.
C29_Termination ==
    Exploding =>
        /\ \A k \in 2..Len(rounds) : Len(rounds[k]) < Len(rounds[k - 1])
        /\ (pc = "rolling" /\ Len(rounds) >= 1) => dice_count < Len(rounds[Len(rounds)])

\* the attributes of an item but its result and its detail
Attributes == <<variant, code, exc, params>>

\* a step of roll() or between two calls of it, seen by the caller
FrameStep ==
    Constructed =>
        /\ UNCHANGED Attributes
        /\ pc' # "done" => UNCHANGED <<result, detail>>
        /\ pc' = "done" =>
              /\ result' = ResultOfDraws'
              /\ Len(tape') = DrawsOfRoll'
              /\ detail' = IF len(output') > MAX_OUTPUT_LEN THEN I18N("dice.message.too_long")
                           ELSE output'

\* C30: roll() of an item of any variant, called any number of times, leaves
\* the notation and every validated parameter of the item as the constructor
\* set them and assigns the result and the detail only, when it returns; the
\* result it assigns is the one the values drawn by this call give, whatever
\* an earlier call left behind.
C30_RollFrame == [][FrameStep]_vars

\* the third roll() of a BonusPunishDice item of two digits returned, after
\* nine calls of the random source in all, its result that of its own draws
C30_Witness ==
    /\ pc = "done" /\ variant = "BonusPunishDice"
    /\ again = 2 /\ count = 2 /\ draws = 9
    /\ tape = <<98, 0, 1>> /\ result = 98

====
